---- MODULE Spec2Model ----
(***************************************************************************)
(* xsp_paper: the scan cycle of XspV16PaperEngine, its storage             *)
(* (PaperStore over the xsp_* tables), the signal detector, the Telegram   *)
(* sender and the process wiring (bootstrap / main).                       *)
(*                                                                         *)
(* Units.  Times are milliseconds.  Prices and USD amounts are integers.   *)
(* Every configured fraction (takeProfitPct, replaceThresholdPct,          *)
(* deltaExitThreshold, entryMarginFraction, sellRatioMax) and every sell   *)
(* ratio is carried multiplied by 100, so that the code's "x * 100" is the *)
(* carried value and a return "in percent" is an integer.                  *)
(* An awaited call is one step of the model; a call that rejects is the    *)
(* step Throws (or, inside the detector, DetectSymbol's error result).     *)
(***************************************************************************)
EXTENDS Integers, Sequences, FiniteSets, TLC

HOUR_MS == 3600000

\* ---------------------------------------------------------------- bounds
\* Largest configured maxOpenPositions explored.
MaxCap == 2
\* Number of clock advances explored (each of TickMs).
MaxTicks == 1
\* Most candles the exchange returns to a reconciliation.
MaxCandles == 3
\* Number of cycles that run to their end over the run.
MaxUpdates == 2      \* Telegram updates that arrive
MaxPolls == 2        \* ticks of the command poller's interval
MaxCycles == 2

\* The clock advances by whole hours.
TickMs == HOUR_MS
\* Start of the run: three hours after the epoch, so that earlier candles exist.
T0 == 3 * HOUR_MS
MaxNow == T0 + MaxTicks * TickMs

Symbols == <<"AUSDT", "BUSDT">>
Triggers == {"timer", "manual"}

\* A nullable number of the code (number | null) that is null.
NullNum == 0 - 1

\* ---------------------------------------------------------------- config
BaseConfig ==
    [ leverage                 |-> 5,
      takeProfitPct            |-> 10,
      deltaExitThreshold       |-> 10,
      maxHoldHours             |-> 1,
      maxOpenPositions         |-> 1,
      preventDuplicateSymbols  |-> TRUE,
      replaceThresholdPct      |-> 5,
      replaceThresholdBasis    |-> "unlevered",
      startingEquityUsd        |-> 1600,
      entryMarginFraction      |-> 50,
      entryMarginCapUsd        |-> 400,
      minActiveCashUsd         |-> 200,
      reconcileDowntimeExits   |-> TRUE,
      downtimeLookbackHoursMax |-> 2,
      sellRatioMax             |-> 30,
      minHourVolume            |-> 1000,
      symbolBatchSize          |-> 1,
      maxSymbols               |-> 2,
      requestPauseMs           |-> 0,
      symbolRefreshIntervalMs  |-> HOUR_MS,
      telegramEnabled          |-> TRUE,
      fundingEnabled           |-> FALSE,
      useFees                  |-> FALSE,
      useSlippage              |-> FALSE,
      takerFeeBps              |-> 0,
      entrySlippageBps         |-> 0,
      exitSlippageBps          |-> 0 ]

Configs ==
    { [BaseConfig EXCEPT !.preventDuplicateSymbols = p, !.maxOpenPositions = m] :
        p \in BOOLEAN, m \in 1..MaxCap }

VARIABLES
    cfg,        \* the loaded AppConfig (fixed for the life of the process)
    now,        \* Date.now()
    alive,      \* the process has not exited
    started,    \* app.start() has returned: scheduler, poller and signal handlers are installed
    inCycle,    \* XspV16PaperEngine.inCycle
    call,       \* the frames of the runCycle calls in flight
    returned,   \* what the step just taken returned to a caller of runCycle, if anything
    runtime,    \* xsp_runtime_state: last_scan_ts, last_symbol_refresh_ts
    symbolsTbl, \* xsp_symbols: the active symbols
    signals,    \* xsp_signals rows
    positions,  \* xsp_positions rows, by id (1..Len)
    trades,     \* xsp_trades rows
    alerts,     \* xsp_alerts rows
    hist,       \* history of the cycle in flight (or the one that has just returned)
    cycles,     \* the number of cycles that have returned so far
    poll,       \* the command poller's /scan command in hand
    probe       \* a function of the code under examination: its arguments and its result

vars == << cfg, now, alive, started, inCycle, call, returned, runtime, symbolsTbl,
           signals, positions, trades, alerts, hist, cycles, poll, probe >>

db == << runtime, symbolsTbl, signals, positions, trades, alerts >>

\* ------------------------------------------------------------ cost model
Min2(a, b) == IF a <= b THEN a ELSE b
Max2(a, b) == IF a >= b THEN a ELSE b

\* The numbers that are not finite: -Infinity, NaN and Infinity, as three
\* integers no price or amount takes.
NonFinite == {0 - 999999999, 999999998, 999999999}

\* The return of a long: the sign the other way round.
longUnleveredReturnPct(entryPrice, exitPrice) ==
    IF entryPrice \in NonFinite \/ entryPrice <= 0 \/ exitPrice \in NonFinite \/ exitPrice <= 0
    THEN 0
    ELSE ((exitPrice - entryPrice) * 100) \div entryPrice

shortUnleveredReturnPct(entryPrice, exitPrice) ==
    IF entryPrice \in NonFinite \/ entryPrice <= 0 \/ exitPrice \in NonFinite \/ exitPrice <= 0
    THEN 0
    ELSE ((entryPrice - exitPrice) * 100) \div entryPrice

leveragedReturnPct(unleveredReturnPct, leverage) == unleveredReturnPct * leverage

qtyFromNotional(notionalUsd, entryPrice) ==
    IF notionalUsd <= 0 \/ entryPrice <= 0 THEN 0 ELSE notionalUsd \div entryPrice

pnlUsdFromUnleveredPct(marginUsd, leverage, unleveredReturnPctValue) ==
    (marginUsd * leverage * unleveredReturnPctValue) \div 100

applyCosts(notionalUsd, c) ==
    LET entryFeeUsd == IF c.useFees THEN (notionalUsd * c.takerFeeBps) \div 10000 ELSE 0
        exitFeeUsd == IF c.useFees THEN (notionalUsd * c.takerFeeBps) \div 10000 ELSE 0
        entrySlippageUsd ==
            IF c.useSlippage THEN (notionalUsd * c.entrySlippageBps) \div 10000 ELSE 0
        exitSlippageUsd ==
            IF c.useSlippage THEN (notionalUsd * c.exitSlippageBps) \div 10000 ELSE 0
        totalFeesUsd == entryFeeUsd + exitFeeUsd
        totalSlippageUsd == entrySlippageUsd + exitSlippageUsd
    IN  [ totalFeesUsd |-> totalFeesUsd,
          totalSlippageUsd |-> totalSlippageUsd,
          totalCostUsd |-> totalFeesUsd + totalSlippageUsd ]

\* A threshold at the loss of the whole price, whatever the leverage.
liquidationThresholdWholePrice(leverage) == 0 - 100

liquidationThresholdUnleveredPct(leverage) ==
    IF leverage <= 0 THEN 0 - 100 ELSE 0 - (100 \div leverage)

floorToHour(tsMs) == (tsMs \div HOUR_MS) * HOUR_MS

\* ---------------------------------------------------------------- storage
OpenIds == { id \in 1..Len(positions) : positions[id].status = "OPEN" }

RECURSIVE SumOver(_, _)
SumOver(f, S) ==
    IF S = {} THEN 0
    ELSE LET x == CHOOSE y \in S : TRUE IN f[x] + SumOver(f, S \ {x})

\* xsp_summary(p_starting_equity_usd): cash and equity, computed from the rows.
getSummary(startingEquityUsd) ==
    LET marginInUse == SumOver([id \in OpenIds |-> positions[id].marginUsd], OpenIds)
        unrealized == SumOver([id \in OpenIds |-> positions[id].latestUnrealizedPnlUsd], OpenIds)
        funding == SumOver([id \in OpenIds |-> positions[id].latestFundingAccruedUsd], OpenIds)
        realized == SumOver([k \in 1..Len(trades) |-> trades[k].pnlUsd], 1..Len(trades))
    IN  [ cashUsd |-> startingEquityUsd + realized + funding - marginInUse,
          currentEquityUsd |-> startingEquityUsd + realized + unrealized,
          openPositions |-> Cardinality(OpenIds) ]

\* The orders in which getOpenPositions can return the OPEN rows: ascending
\* entry_ts_ms, rows with equal entry_ts_ms in an order the database chooses.
OpenOrders ==
    { s \in [1..Cardinality(OpenIds) -> OpenIds] :
        /\ \A a, b \in DOMAIN s : a # b => s[a] # s[b]
        /\ \A a, b \in DOMAIN s :
              a < b => positions[s[a]].entryTsMs <= positions[s[b]].entryTsMs }

\* A findSignal that never finds the row.
findSignalNever(symbol, hourStartMs) == {}

findSignal(symbol, hourStartMs) ==
    { s \in signals : s.symbol = symbol /\ s.hourStartMs = hourStartMs }

\* A getOpenPositionBySymbol that never finds a row.
getOpenPositionBySymbolNone(symbol) == {}

getOpenPositionBySymbol(symbol) ==
    { id \in OpenIds : positions[id].symbol = symbol }

\* ----------------------------------------------------------- market data
\* What the exchange can answer.  A candle of the model is flat at 100 unless it
\* has a shape: "up" touches the liquidation price of a 100 entry at leverage 5,
\* "down" touches its take-profit price, "both" touches both.
Candle(openTimeMs, shape, volume, open) ==
    [ openTimeMs |-> openTimeMs,
      open   |-> open,
      high   |-> IF shape \in {"up", "both"} THEN 120 ELSE 100,
      low    |-> IF shape \in {"down", "both"} THEN 90 ELSE 100,
      close  |-> IF shape = "up" THEN 110 ELSE IF shape = "down" THEN 95 ELSE 100,
      volume |-> volume ]

\* getKlines1h(symbol, 3) as the detector sees it: ascending by open time.
DetectKlines ==
    LET cur == floorToHour(now) IN
    { <<>>, << Candle(cur, "flat", 5000, 100) >>,
      << Candle(cur, "flat", 5000, 100), Candle(cur, "flat", 5000, 100) >> }
    \cup { << Candle(cur - HOUR_MS, "flat", v, 100), Candle(cur, "flat", 5000, o) >> :
             v \in {0, 5000}, o \in {0, 100} }
    \cup { << Candle(cur - 2 * HOUR_MS, "flat", 0, 100),
              Candle(cur - HOUR_MS, "flat", 5000, 100), Candle(cur, "flat", 0, 100) >> }

\* getAccountRatio1h(symbol, 10) as the detector sees it: ascending by timestamp.
DetectRatios ==
    LET cur == floorToHour(now) IN
    { <<>>, << [tsMs |-> cur - 3 * HOUR_MS, sellRatio |-> 20] >> }
    \cup { << [tsMs |-> cur - HOUR_MS, sellRatio |-> r] >> : r \in {20, 40, NullNum} }
    \cup { << [tsMs |-> cur - HOUR_MS, sellRatio |-> 40], [tsMs |-> cur, sellRatio |-> 20] >> }

\* ------------------------------------------------------- signal detector
NoDecision == [ symbol |-> "" ]

\* A detector that takes the oldest candle fetched for the closed hour.
detectOldest(symbol, klines, ratios, c) ==
    IF Len(klines) < 2 THEN NoDecision
    ELSE
      LET closed == klines[1]
          current == klines[Len(klines)]
          closedHourStartMs == closed.openTimeMs
          closedHourEndMs == closedHourStartMs + HOUR_MS
          inRange == { k \in 1..Len(ratios) :
                         /\ ratios[k].tsMs <= closedHourEndMs
                         /\ ratios[k].tsMs >= closedHourStartMs - HOUR_MS }
          sellRatio ==
              IF inRange = {} THEN NullNum
              ELSE ratios[CHOOSE k \in inRange : \A m \in inRange : m <= k].sellRatio
          nextOpenPrice == current.open
      IN  IF closed.openTimeMs >= current.openTimeMs THEN NoDecision
          ELSE IF ~(closed.volume >= c.minHourVolume) THEN NoDecision
          ELSE IF sellRatio = NullNum \/ sellRatio > c.sellRatioMax THEN NoDecision
          ELSE IF nextOpenPrice <= 0 THEN NoDecision
          ELSE [ symbol |-> symbol,
                 closedHourStartMs |-> closedHourStartMs,
                 closedHourEndMs |-> closedHourEndMs,
                 closedHourVolume |-> closed.volume,
                 signalSellRatio |-> sellRatio,
                 closePrice |-> closed.close,
                 nextOpenPrice |-> nextOpenPrice ]

\* A detector that takes the sample listed last among those in range, whatever
\* its timestamp.
detectLastListed(symbol, klines, ratios, c) ==
    IF Len(klines) < 2 THEN NoDecision
    ELSE
      LET closed == klines[Len(klines) - 1]
          current == klines[Len(klines)]
          closedHourStartMs == closed.openTimeMs
          closedHourEndMs == closedHourStartMs + HOUR_MS
          inRange == { k \in 1..Len(ratios) :
                         /\ ratios[k].tsMs <= closedHourEndMs
                         /\ ratios[k].tsMs >= closedHourStartMs - HOUR_MS }
          sellRatio ==
              IF inRange = {} THEN NullNum
              ELSE ratios[CHOOSE k \in inRange : \A m \in inRange : m <= k].sellRatio
          nextOpenPrice == current.open
      IN  IF closed.openTimeMs >= current.openTimeMs THEN NoDecision
          ELSE IF closed.volume \in NonFinite \/ ~(closed.volume >= c.minHourVolume)
          THEN NoDecision
          ELSE IF sellRatio = NullNum \/ sellRatio \in NonFinite \/ sellRatio > c.sellRatioMax
          THEN NoDecision
          ELSE IF nextOpenPrice \in NonFinite \/ nextOpenPrice <= 0 THEN NoDecision
          ELSE [ symbol |-> symbol,
                 closedHourStartMs |-> closedHourStartMs,
                 closedHourEndMs |-> closedHourEndMs,
                 closedHourVolume |-> closed.volume,
                 signalSellRatio |-> sellRatio,
                 closePrice |-> closed.close,
                 nextOpenPrice |-> nextOpenPrice ]

\* A detector that does not look at the open of the current candle.
detectAnyPrice(symbol, klines, ratios, c) ==
    IF Len(klines) < 2 THEN NoDecision
    ELSE
      LET closed == klines[Len(klines) - 1]
          current == klines[Len(klines)]
          closedHourStartMs == closed.openTimeMs
          closedHourEndMs == closedHourStartMs + HOUR_MS
          inRange == { k \in 1..Len(ratios) :
                         /\ ratios[k].tsMs <= closedHourEndMs
                         /\ ratios[k].tsMs >= closedHourStartMs - HOUR_MS }
          sellRatio ==
              IF inRange = {} THEN NullNum
              ELSE ratios[CHOOSE k \in inRange : \A m \in inRange :
                             \/ ratios[m].tsMs < ratios[k].tsMs
                             \/ ratios[m].tsMs = ratios[k].tsMs /\ m <= k].sellRatio
      IN  IF closed.openTimeMs >= current.openTimeMs THEN NoDecision
          ELSE IF closed.volume \in NonFinite \/ ~(closed.volume >= c.minHourVolume)
          THEN NoDecision
          ELSE IF sellRatio = NullNum \/ sellRatio \in NonFinite \/ sellRatio > c.sellRatioMax
          THEN NoDecision
          ELSE [ symbol |-> symbol,
                 closedHourStartMs |-> closedHourStartMs,
                 closedHourEndMs |-> closedHourEndMs,
                 closedHourVolume |-> closed.volume,
                 signalSellRatio |-> sellRatio,
                 closePrice |-> closed.close,
                 nextOpenPrice |-> current.open ]

\* V16SignalDetector.detect.  The samples in range are sorted by timestamp (a
\* stable sort) and the last is taken; Number.isFinite rejects the values of
\* NonFinite.
detect(symbol, klines, ratios, c) ==
    IF Len(klines) < 2 THEN NoDecision
    ELSE
      LET closed == klines[Len(klines) - 1]
          current == klines[Len(klines)]
          closedHourStartMs == closed.openTimeMs
          closedHourEndMs == closedHourStartMs + HOUR_MS
          inRange == { k \in 1..Len(ratios) :
                         /\ ratios[k].tsMs <= closedHourEndMs
                         /\ ratios[k].tsMs >= closedHourStartMs - HOUR_MS }
          sellRatio ==
              IF inRange = {} THEN NullNum
              ELSE ratios[CHOOSE k \in inRange : \A m \in inRange :
                             \/ ratios[m].tsMs < ratios[k].tsMs
                             \/ ratios[m].tsMs = ratios[k].tsMs /\ m <= k].sellRatio
          nextOpenPrice == current.open
      IN  IF closed.openTimeMs >= current.openTimeMs THEN NoDecision
          ELSE IF closed.volume \in NonFinite \/ ~(closed.volume >= c.minHourVolume)
          THEN NoDecision
          ELSE IF sellRatio = NullNum \/ sellRatio \in NonFinite \/ sellRatio > c.sellRatioMax
          THEN NoDecision
          ELSE IF nextOpenPrice \in NonFinite \/ nextOpenPrice <= 0 THEN NoDecision
          ELSE [ symbol |-> symbol,
                 closedHourStartMs |-> closedHourStartMs,
                 closedHourEndMs |-> closedHourEndMs,
                 closedHourVolume |-> closed.volume,
                 signalSellRatio |-> sellRatio,
                 closePrice |-> closed.close,
                 nextOpenPrice |-> nextOpenPrice ]

\* ----------------------------------------------------------------- frames
NoClose == [ id |-> 0, reason |-> "", exitTsMs |-> 0, exitPrice |-> 0, ret |-> "" ]
NoAlert == [ type |-> "", reason |-> "", symbol |-> "", positionId |-> 0, ret |-> "" ]

NewFrame ==
    [ pc         |-> "",
      lastScanTs |-> 0,        \* runCycle
      cycleNowTs |-> 0,
      manual     |-> FALSE,    \* the caller is the poller's /scan command
      active     |-> <<>>,     \* refreshSymbolsIfNeeded
      open       |-> <<>>,     \* evaluateOpenPositionsForExit: the rows read, and the loop index
      i          |-> 0,
      klines     |-> <<>>,     \* evaluateDowntimeExit
      mark       |-> 0,        \* the live mark and its unlevered return
      unlev      |-> 0,
      closing    |-> NoClose,  \* closePositionWithAlert's arguments and where it returns to
      alert      |-> NoAlert,  \* sendEntryAlert / sendExitAlert
      messageId  |-> NullNum,
      symbols    |-> <<>>,     \* scanAndHandleSignals: the symbols, the batch start, the results
      base       |-> 0,
      results    |-> <<>>,
      j          |-> 0,
      decision   |-> NoDecision, \* handleSignal
      signalId   |-> 0,
      marginUsd  |-> 0,
      replaced   |-> 0,
      outcome    |-> "" ]

NoReturn == [ executed |-> FALSE, reason |-> "" ]

\* The poller with no /scan command in hand, and no function under examination.
NoPoll == [ pc |-> "idle", result |-> NoReturn, sent |-> "" ]
NoProbe == [ fn |-> "" ]

NoHist ==
    [ runtime |-> [lastScan |-> 0, lastRefresh |-> 0],
      thrownAt |-> "",
      detectFailed |-> {},
      detected |-> {},
      decided |-> {},
      handled |-> {},
      existing |-> {},
      evaluated |-> {},
      thrownIn |-> "" ]

Init ==
    /\ cfg \in Configs
    /\ now = T0
    /\ alive = TRUE
    /\ started = FALSE
    /\ inCycle = FALSE
    /\ call = {}
    /\ returned = NoReturn
    /\ runtime = [lastScan |-> 0, lastRefresh |-> T0]
    /\ symbolsTbl = { Symbols[k] : k \in 1..Len(Symbols) }
    /\ signals = {}
    /\ positions = <<>>
    /\ trades = <<>>
    /\ alerts = <<>>
    /\ hist = NoHist
    /\ cycles = 0
    /\ poll = NoPoll
    /\ probe = NoProbe

SetFrame(fr, g) == call' = (call \ {fr}) \cup {g}
\* A step's note in the history of the cycle.
Note(h) == hist' = h

\* ------------------------------------------------------------- the clock
Tick ==
    /\ alive
    /\ now + TickMs <= MaxNow
    /\ now' = now + TickMs
    /\ returned' = NoReturn
    /\ UNCHANGED << probe, poll, cfg, cycles, alive, started, inCycle, call, runtime, symbolsTbl,
                    signals, positions, trades, alerts, hist >>

\* --------------------------------------------------------------- runCycle
\* A runCycle without its guard.
CycleBusyNever == FALSE

\* The guard of runCycle's first line.
CycleBusy == inCycle

\* Who can call runCycle: start() calls it once ("manual") before it starts the
\* scheduler and the command poller; after that the scheduler's timer calls it
\* ("timer") and, with Telegram enabled, the poller's /scan does ("manual").
Armed(t) ==
    IF ~started THEN t = "manual" /\ call = {}
    ELSE t = "timer" \/ cfg.telegramEnabled

\* The trigger is only logged, so a frame does not carry it.
RunCycle(t) ==
    /\ alive
    /\ Armed(t)
    /\ IF CycleBusy
       THEN /\ returned' = [executed |-> FALSE, reason |-> "cycle_in_progress"]
            /\ UNCHANGED << inCycle, call, hist, cycles >>
       ELSE /\ cycles < MaxCycles
            /\ inCycle' = TRUE
            /\ call' = call \cup { [NewFrame EXCEPT !.pc = "readLastScan", !.cycleNowTs = now] }
            /\ returned' = NoReturn
            /\ hist' = [NoHist EXCEPT !.runtime = runtime]
            /\ UNCHANGED cycles
    /\ UNCHANGED << probe, poll, cfg, now, alive, started, runtime, symbolsTbl, signals, positions,
                    trades, alerts >>

\* shutdown(signal): app.stop() clears both timers, then process.exit(0).  main
\* installs the handlers once start() has returned.
Shutdown ==
    /\ alive /\ started
    /\ alive' = FALSE
    /\ returned' = NoReturn
    /\ UNCHANGED << probe, poll, cfg, cycles, now, started, inCycle, call, runtime, symbolsTbl,
                    signals, positions, trades, alerts, hist >>

\* A runCycle without its finally block.
ReturnFlagKept(fr, res) ==
    /\ returned' = res
    /\ call' = call \ {fr}
    /\ inCycle' = inCycle
    /\ started' = TRUE
    /\ cycles' = cycles + 1
    /\ poll' = IF fr.manual THEN [poll EXCEPT !.pc = "reply", !.result = res] ELSE poll

\* The end of runCycle: its return value, and the finally block.  When the call
\* was start()'s own, start() goes on to start the scheduler and the poller.
Return(fr, res) ==
    /\ returned' = res
    /\ call' = call \ {fr}
    /\ inCycle' = FALSE
    /\ started' = TRUE
    /\ cycles' = cycles + 1
    /\ poll' = IF fr.manual THEN [poll EXCEPT !.pc = "reply", !.result = res] ELSE poll

ReadLastScan(fr) ==
    /\ alive /\ fr.pc = "readLastScan"
    /\ SetFrame(fr, [fr EXCEPT !.pc = "refreshRead", !.lastScanTs = runtime.lastScan])
    /\ returned' = NoReturn
    /\ UNCHANGED << probe, poll, cfg, cycles, now, alive, started, inCycle, runtime, symbolsTbl,
                    signals, positions, trades, alerts, hist >>

\* ------------------------------------------------ refreshSymbolsIfNeeded
\* getLinearPerpSymbols: the USDT perpetuals with their status, in the
\* exchange's order.
InstrumentLists ==
    { <<>>,
      << [symbol |-> Symbols[1], status |-> "Trading"] >>,
      << [symbol |-> Symbols[1], status |-> "Closed"],
         [symbol |-> Symbols[2], status |-> "Settling"] >>,
      << [symbol |-> Symbols[1], status |-> "Trading"],
         [symbol |-> Symbols[2], status |-> "Trading"] >> }

ActiveOf(instruments, c) ==
    LET Trading(i) == i.status \in {"Trading", "Settling"}
        kept == SelectSeq(instruments, Trading)
        n == Min2(Len(kept), c.maxSymbols)
    IN  [k \in 1..n |-> kept[k].symbol]

RefreshRead(fr) ==
    /\ alive /\ fr.pc = "refreshRead"
    /\ LET due == now - runtime.lastRefresh >= cfg.symbolRefreshIntervalMs
       IN  SetFrame(fr, [fr EXCEPT !.pc = IF due THEN "refreshFetch" ELSE "exitLoad"])
    /\ returned' = NoReturn
    /\ UNCHANGED << probe, poll, cfg, cycles, now, alive, started, inCycle, runtime, symbolsTbl,
                    signals, positions, trades, alerts, hist >>

RefreshFetch(fr) ==
    /\ alive /\ fr.pc = "refreshFetch"
    /\ \E instruments \in InstrumentLists :
          SetFrame(fr, [fr EXCEPT !.pc = "refreshUpsert",
                                      !.active = ActiveOf(instruments, cfg)])
    /\ returned' = NoReturn
    /\ UNCHANGED << probe, poll, cfg, cycles, now, alive, started, inCycle, runtime, symbolsTbl,
                    signals, positions, trades, alerts, hist >>

upsertSymbols(symbols) == symbolsTbl \cup { symbols[k] : k \in 1..Len(symbols) }

RefreshUpsert(fr) ==
    /\ alive /\ fr.pc = "refreshUpsert"
    /\ symbolsTbl' = upsertSymbols(fr.active)
    /\ SetFrame(fr, [fr EXCEPT !.pc = "refreshMark"])
    /\ returned' = NoReturn
    /\ UNCHANGED << probe, poll, cfg, cycles, now, alive, started, inCycle, runtime,
                    signals, positions, trades, alerts, hist >>

\* A setRuntimeValue that writes the value under every key.
setRuntimeValueEveryKey(key, value) == [ k \in DOMAIN runtime |-> value ]

\* store.setRuntimeValue: the upsert of one key.
setRuntimeValue(key, value) == [runtime EXCEPT ![key] = value]

RefreshMark(fr) ==
    /\ alive /\ fr.pc = "refreshMark"
    /\ runtime' = setRuntimeValue("lastRefresh", now)
    /\ SetFrame(fr, [fr EXCEPT !.pc = "exitLoad", !.active = <<>>])
    /\ returned' = NoReturn
    /\ UNCHANGED << probe, poll, cfg, cycles, now, alive, started, inCycle, symbolsTbl,
                    signals, positions, trades, alerts, hist >>

\* ---------------------------------------------------- evaluateDowntimeExit
\* A window that opens at the position's entry or at the lookback cap, whenever
\* the last scan was.
WindowStartNoLastScan(pos, lastScanTs, nowTs, c) ==
    Max2(pos.entryTsMs, nowTs - c.downtimeLookbackHoursMax * HOUR_MS)

WindowStart(pos, lastScanTs, nowTs, c) ==
    Max2(Max2(pos.entryTsMs, lastScanTs), nowTs - c.downtimeLookbackHoursMax * HOUR_MS)

HoursOf(pos, lastScanTs, nowTs, c) ==
    ((nowTs - WindowStart(pos, lastScanTs, nowTs, c)) + HOUR_MS - 1) \div HOUR_MS + 3

priceAtTsFromKlines(klines, tsMs) ==
    LET inside == { k \in 1..Len(klines) :
                      tsMs >= klines[k].openTimeMs /\ tsMs < klines[k].openTimeMs + HOUR_MS }
        prior == { k \in 1..Len(klines) : klines[k].openTimeMs <= tsMs }
        Price(k) == IF klines[k].close > 0 THEN klines[k].close ELSE NullNum
    IN  IF inside # {} THEN Price(CHOOSE k \in inside : \A m \in inside : k <= m)
        ELSE IF prior = {} THEN NullNum
        ELSE Price(CHOOSE k \in prior : \A m \in prior : m <= k)

\* priceAtTsFromKlines(...) ?? klines.at(-1)?.close ?? pos.entryPrice
FallbackPrice(klines, tsMs, pos) ==
    LET p == priceAtTsFromKlines(klines, tsMs)
    IN  IF p # NullNum THEN p
        ELSE IF Len(klines) > 0 THEN klines[Len(klines)].close
        ELSE pos.entryPrice

\* The take-profit level looked at before the liquidation level.
priceTriggerTpFirst(candle, liqPrice, tpPrice) ==
    IF candle.low <= tpPrice THEN "TP"
    ELSE IF candle.high >= liqPrice THEN "LIQ" ELSE ""

\* hitLiq, hitTp and the branch on hitLiq of evaluateDowntimeExit's candle loop:
\* the reason of the candidate a candle gives, "" when it reaches neither level.
priceTrigger(candle, liqPrice, tpPrice) ==
    IF candle.high >= liqPrice THEN "LIQ"
    ELSE IF candle.low <= tpPrice THEN "TP" ELSE ""

\* A price exit stamped at the candle's close, also when that is after now.
candleExitTsAtClose(candle, nowTs) == candle.openTimeMs + HOUR_MS

\* exitTsMs: Math.min(candleEnd, nowTs) of a LIQ or TP candidate.
candleExitTs(candle, nowTs) == Min2(candle.openTimeMs + HOUR_MS, nowTs)

\* The candidates evaluateDowntimeExit pushes.
downtimeCandidates(pos, lastScanTs, nowTs, klines, ratios, c) ==
    LET windowStart == WindowStart(pos, lastScanTs, nowTs, c)
        liqPrice == (pos.entryPrice * (pos.leverage + 1)) \div pos.leverage
        tpPrice == (pos.entryPrice * (100 - pos.takeProfitPct)) \div 100
        InWindow(k) == ~( klines[k].openTimeMs + HOUR_MS <= windowStart
                          \/ klines[k].openTimeMs > nowTs )
        hits == { k \in 1..Len(klines) :
                    InWindow(k) /\ priceTrigger(klines[k], liqPrice, tpPrice) # "" }
        first == CHOOSE k \in hits : \A m \in hits : k <= m
        priceCands ==
            IF hits = {} THEN {}
            ELSE IF priceTrigger(klines[first], liqPrice, tpPrice) = "LIQ"
                 THEN { [ reason |-> "LIQ", priority |-> 1, exitPrice |-> liqPrice,
                          exitTsMs |-> candleExitTs(klines[first], nowTs) ] }
                 ELSE { [ reason |-> "TP", priority |-> 2, exitPrice |-> tpPrice,
                          exitTsMs |-> candleExitTs(klines[first], nowTs) ] }
        timeTs == pos.entryTsMs + c.maxHoldHours * HOUR_MS
        timeCands ==
            IF c.maxHoldHours > 0 /\ timeTs >= windowStart /\ timeTs <= nowTs
            THEN { [ reason |-> "TIME", priority |-> 4, exitTsMs |-> timeTs,
                     exitPrice |-> FallbackPrice(klines, timeTs, pos) ] }
            ELSE {}
        deltas == { k \in 1..Len(ratios) :
                      /\ ~(ratios[k].tsMs < windowStart \/ ratios[k].tsMs > nowTs)
                      /\ ratios[k].sellRatio # NullNum
                      /\ ratios[k].sellRatio - pos.entrySellRatio >= pos.deltaExitThreshold }
        firstDelta == CHOOSE k \in deltas : \A m \in deltas : k <= m
        deltaCands ==
            IF deltas = {} THEN {}
            ELSE { [ reason |-> "DELTA", priority |-> 3, exitTsMs |-> ratios[firstDelta].tsMs,
                     exitPrice |-> FallbackPrice(klines, ratios[firstDelta].tsMs, pos) ] }
    IN  priceCands \cup timeCands \cup deltaCands

\* A sort by priority first and exit time second.
selectExitByPriority(candidates) ==
    LET Before(a, b) == \/ a.priority < b.priority
                        \/ a.priority = b.priority /\ a.exitTsMs <= b.exitTsMs
    IN  { a \in candidates : \A b \in candidates : Before(a, b) }

\* candidates.sort((a, b) => (a.exitTsMs - b.exitTsMs) || (a.priority - b.priority))
\* and candidates[0]: a set, empty when there is no candidate.
selectExit(candidates) ==
    LET Before(a, b) == \/ a.exitTsMs < b.exitTsMs
                        \/ a.exitTsMs = b.exitTsMs /\ a.priority <= b.priority
    IN  { a \in candidates : \A b \in candidates : Before(a, b) }

\* evaluateDowntimeExit.  The result is a set: empty for null, else the one exit
\* selected.
evaluateDowntimeExit(pos, lastScanTs, nowTs, klines, ratios, c) ==
    LET candidates == downtimeCandidates(pos, lastScanTs, nowTs, klines, ratios, c)
    IN  IF nowTs <= WindowStart(pos, lastScanTs, nowTs, c) \/ Len(klines) = 0 THEN {}
        ELSE { [ reason |-> x.reason, exitTsMs |-> x.exitTsMs, exitPrice |-> x.exitPrice ] :
                 x \in selectExit(candidates) }

\* getKlines1h(symbol, klineLimit) during reconciliation: the most recent hours,
\* at most one of them with a shape.
DowntimeKlines(limit) ==
    LET cur == floorToHour(now)
        n == Min2(limit, MaxCandles)
        At(k) == cur - (n - k) * HOUR_MS
    IN  { <<>> }
        \cup { [k \in 1..n |-> Candle(At(k), IF k = h THEN sh ELSE "flat", 5000, 100)] :
                 h \in 0..n, sh \in {"up", "down", "both"} }

\* getAccountRatio1h(symbol, limit) during reconciliation and in decideExit.
ExitRatios ==
    LET cur == floorToHour(now) IN
    { <<>> }
    \cup { << [tsMs |-> ts, sellRatio |-> r] >> :
             ts \in {cur - HOUR_MS, cur}, r \in {20, 40, NullNum} }
    \cup { << [tsMs |-> cur - HOUR_MS, sellRatio |-> 40], [tsMs |-> cur, sellRatio |-> 20] >> }

\* ------------------------------------------- evaluateOpenPositionsForExit
\* The mark prices a ticker can carry; NullNum stands for no ticker row.
Marks == {NullNum, 0, 80, 110, 120}

\* A loop body that goes to the live evaluation at once.
EnterPosLiveFirst(f, k) ==
    LET g == [f EXCEPT !.klines = <<>>, !.mark = 0, !.unlev = 0, !.closing = NoClose,
                       !.alert = NoAlert, !.messageId = NullNum]
    IN  IF k > Len(f.open)
        THEN [g EXCEPT !.pc = "scanLoad", !.open = <<>>, !.i = 0]
        ELSE [g EXCEPT !.pc = "ticker", !.i = k]

\* The frame at the head of the loop body for the k-th row read (up to the first
\* await of that iteration), or after the loop.
EnterPos(f, k) ==
    LET g == [f EXCEPT !.klines = <<>>, !.mark = 0, !.unlev = 0, !.closing = NoClose,
                       !.alert = NoAlert, !.messageId = NullNum]
    IN  IF k > Len(f.open)
        THEN [g EXCEPT !.pc = "scanLoad", !.open = <<>>, !.i = 0]
        ELSE LET pos == positions[f.open[k]]
                 reconcile ==
                     /\ cfg.reconcileDowntimeExits /\ f.lastScanTs > 0
                     /\ ~(f.cycleNowTs <= WindowStart(pos, f.lastScanTs, f.cycleNowTs, cfg))
             IN  [g EXCEPT !.pc = IF reconcile THEN "dtKlines" ELSE "ticker", !.i = k]

\* The loop's continue: the history notes the position as evaluated.
Continue(fr, f) ==
    /\ SetFrame(fr, EnterPos(f, f.i + 1))
    /\ Note([hist EXCEPT !.evaluated = @ \cup {f.open[f.i]}])

ExitLoad(fr) ==
    /\ alive /\ fr.pc = "exitLoad"
    /\ \E s \in OpenOrders : SetFrame(fr, EnterPos([fr EXCEPT !.open = s], 1))
    /\ returned' = NoReturn
    /\ UNCHANGED << probe, poll, cfg, cycles, now, alive, started, inCycle, runtime, symbolsTbl,
                    signals, positions, trades, alerts, hist >>

DtKlines(fr) ==
    /\ alive /\ fr.pc = "dtKlines"
    /\ LET f == fr
           pos == positions[f.open[f.i]]
           hours == HoursOf(pos, f.lastScanTs, f.cycleNowTs, cfg)
           klineLimit == Max2(3, Min2(200, hours))
       IN  \E kl \in DowntimeKlines(klineLimit) :
              SetFrame(fr, IF Len(kl) = 0 THEN [f EXCEPT !.pc = "ticker"]
                          ELSE [f EXCEPT !.pc = "dtRatios", !.klines = kl])
    /\ returned' = NoReturn
    /\ UNCHANGED << probe, poll, cfg, cycles, now, alive, started, inCycle, runtime, symbolsTbl,
                    signals, positions, trades, alerts, hist >>

DtRatios(fr) ==
    /\ alive /\ fr.pc = "dtRatios"
    /\ LET f == fr
           pos == positions[f.open[f.i]]
       IN  \E ra \in ExitRatios :
              LET ex == evaluateDowntimeExit(pos, f.lastScanTs, f.cycleNowTs, f.klines, ra, cfg)
              IN  IF ex = {} THEN SetFrame(fr, [f EXCEPT !.pc = "ticker", !.klines = <<>>])
                  ELSE \E x \in ex :
                         SetFrame(fr, [f EXCEPT !.pc = "closeUpdate", !.klines = <<>>,
                                        !.closing = [ id |-> f.open[f.i], reason |-> x.reason,
                                                      exitTsMs |-> x.exitTsMs,
                                                      exitPrice |-> x.exitPrice,
                                                      ret |-> "nextPos" ]])
    /\ returned' = NoReturn
    /\ UNCHANGED << probe, poll, cfg, cycles, now, alive, started, inCycle, runtime, symbolsTbl,
                    signals, positions, trades, alerts, hist >>

\* A ticker whose mark price is taken as it comes, positive or not.
TickerUnchecked(fr) ==
    /\ alive /\ fr.pc = "ticker"
    /\ \E markPrice \in Marks :
          SetFrame(fr, [fr EXCEPT !.pc = "mark", !.mark = markPrice,
                          !.unlev = shortUnleveredReturnPct(positions[fr.open[fr.i]].entryPrice,
                                                            markPrice)])
    /\ returned' = NoReturn
    /\ UNCHANGED << probe, poll, cfg, cycles, now, alive, started, inCycle, runtime, symbolsTbl,
                    signals, positions, trades, alerts, hist >>

Ticker(fr) ==
    /\ alive /\ fr.pc = "ticker"
    /\ LET f == fr
           pos == positions[f.open[f.i]]
       IN  \E markPrice \in Marks :
              IF markPrice <= 0
              THEN Continue(fr, f)
              ELSE /\ SetFrame(fr, [f EXCEPT !.pc = "mark", !.mark = markPrice,
                                     !.unlev = shortUnleveredReturnPct(pos.entryPrice, markPrice)])
                   /\ UNCHANGED hist
    /\ returned' = NoReturn
    /\ UNCHANGED << probe, poll, cfg, cycles, now, alive, started, inCycle, runtime, symbolsTbl,
                    signals, positions, trades, alerts >>

\* decideExit, up to its await: liquidation, then take profit.
decideExitBeforeRatios(pos, unleveredPct) ==
    IF unleveredPct <= liquidationThresholdUnleveredPct(pos.leverage) THEN "LIQ"
    ELSE IF unleveredPct >= pos.takeProfitPct THEN "TP"
    ELSE ""

\* A decision that tests the holding time before everything else.
decideExitTimeFirst(pos, unleveredPct, nowTs, ratios, c) ==
    LET latest == IF Len(ratios) = 0 THEN NullNum ELSE ratios[Len(ratios)].sellRatio
    IN  IF c.maxHoldHours > 0 /\ nowTs - pos.entryTsMs >= c.maxHoldHours * HOUR_MS
        THEN "TIME"
        ELSE IF decideExitBeforeRatios(pos, unleveredPct) # ""
        THEN decideExitBeforeRatios(pos, unleveredPct)
        ELSE IF latest # NullNum /\ latest - pos.entrySellRatio >= pos.deltaExitThreshold
        THEN "DELTA"
        ELSE ""

\* A decision whose holding-time test is made whatever maxHoldHours is.
decideExitNoHoldSwitch(pos, unleveredPct, nowTs, ratios, c) ==
    LET latest == IF Len(ratios) = 0 THEN NullNum ELSE ratios[Len(ratios)].sellRatio
    IN  IF decideExitBeforeRatios(pos, unleveredPct) # ""
        THEN decideExitBeforeRatios(pos, unleveredPct)
        ELSE IF latest # NullNum /\ latest - pos.entrySellRatio >= pos.deltaExitThreshold
        THEN "DELTA"
        ELSE IF nowTs - pos.entryTsMs >= c.maxHoldHours * HOUR_MS
        THEN "TIME"
        ELSE ""

\* decideExit; "" is null.
decideExit(pos, unleveredPct, nowTs, ratios, c) ==
    LET latest == IF Len(ratios) = 0 THEN NullNum ELSE ratios[Len(ratios)].sellRatio
    IN  IF decideExitBeforeRatios(pos, unleveredPct) # ""
        THEN decideExitBeforeRatios(pos, unleveredPct)
        ELSE IF latest # NullNum /\ latest - pos.entrySellRatio >= pos.deltaExitThreshold
        THEN "DELTA"
        ELSE IF c.maxHoldHours > 0 /\ nowTs - pos.entryTsMs >= c.maxHoldHours * HOUR_MS
        THEN "TIME"
        ELSE ""

\* store.updatePositionMark: only a row that is still OPEN is written.  The
\* engine passes no fundingAccruedUsd, so that column is left as it is.
updatePositionMark(id, markPrice, unlev, lev, pnl) ==
    IF positions[id].status = "OPEN"
    THEN [positions EXCEPT ![id].latestMarkPrice = markPrice,
                           ![id].latestUnleveredReturnPct = unlev,
                           ![id].latestLeveragedReturnPct = lev,
                           ![id].latestUnrealizedPnlUsd = pnl]
    ELSE positions

LiveClose(f, reason) ==
    [ id |-> f.open[f.i], reason |-> reason, exitTsMs |-> f.cycleNowTs,
      exitPrice |-> f.mark, ret |-> "nextPos" ]

UpdateMark(fr) ==
    /\ alive /\ fr.pc = "mark"
    /\ LET f == fr
           id == f.open[f.i]
           pos == positions[id]
           early == decideExitBeforeRatios(pos, f.unlev)
       IN  /\ positions' = updatePositionMark(id, f.mark, f.unlev,
                              leveragedReturnPct(f.unlev, pos.leverage),
                              pnlUsdFromUnleveredPct(pos.marginUsd, pos.leverage, f.unlev))
           /\ SetFrame(fr, IF early # ""
                          THEN [f EXCEPT !.pc = "closeUpdate", !.closing = LiveClose(f, early)]
                          ELSE [f EXCEPT !.pc = "liveRatios"])
    /\ returned' = NoReturn
    /\ UNCHANGED << probe, poll, cfg, cycles, now, alive, started, inCycle, runtime, symbolsTbl,
                    signals, trades, alerts, hist >>

LiveRatios(fr) ==
    /\ alive /\ fr.pc = "liveRatios"
    /\ LET f == fr
           pos == positions[f.open[f.i]]
       IN  \E ra \in ExitRatios :
              LET exit == decideExit(pos, f.unlev, f.cycleNowTs, ra, cfg)
              IN  IF exit = "" THEN Continue(fr, f)
                  ELSE /\ SetFrame(fr, [f EXCEPT !.pc = "closeUpdate",
                                                !.closing = LiveClose(f, exit)])
                       /\ UNCHANGED hist
    /\ returned' = NoReturn
    /\ UNCHANGED << probe, poll, cfg, cycles, now, alive, started, inCycle, runtime, symbolsTbl,
                    signals, positions, trades, alerts >>

\* -------------------------------------------------- closePositionWithAlert
\* store.closePosition, first statement: the update of the row, if still OPEN.
closePositionRow(id, exitTsMs, exitPrice, exitReason, unlev, lev, pnl) ==
    IF positions[id].status = "OPEN"
    THEN [positions EXCEPT ![id].status = "CLOSED",
                           ![id].exitTsMs = exitTsMs,
                           ![id].exitPrice = exitPrice,
                           ![id].exitReason = exitReason,
                           ![id].realizedUnleveredReturnPct = unlev,
                           ![id].realizedLeveragedReturnPct = lev,
                           ![id].realizedPnlUsd = pnl]
    ELSE positions

\* The realized figures closePositionWithAlert computes from the row it was given.
Realized(pos, exitPrice, c) ==
    LET unlev == shortUnleveredReturnPct(pos.entryPrice, exitPrice)
        grossPnl == pnlUsdFromUnleveredPct(pos.marginUsd, pos.leverage, unlev)
        costs == applyCosts(pos.notionalUsd, c)
        fundingUsd == 0   \* computeFundingUsd with funding.enabled = false
    IN  [ unlev |-> unlev,
          lev |-> leveragedReturnPct(unlev, pos.leverage),
          pnl |-> grossPnl - costs.totalCostUsd + fundingUsd ]

CloseUpdate(fr) ==
    /\ alive /\ fr.pc = "closeUpdate"
    /\ LET f == fr
           cl == f.closing
           r == Realized(positions[cl.id], cl.exitPrice, cfg)
       IN  /\ positions' = closePositionRow(cl.id, cl.exitTsMs, cl.exitPrice, cl.reason,
                                            r.unlev, r.lev, r.pnl)
           /\ SetFrame(fr, [f EXCEPT !.pc = "closeTrade"])
    /\ returned' = NoReturn
    /\ UNCHANGED << probe, poll, cfg, cycles, now, alive, started, inCycle, runtime, symbolsTbl,
                    signals, trades, alerts, hist >>

\* store.closePosition, second statement: the trade row; then sendExitAlert begins.
CloseTrade(fr) ==
    /\ alive /\ fr.pc = "closeTrade"
    /\ LET f == fr
           cl == f.closing
           pos == positions[cl.id]
           r == Realized(pos, cl.exitPrice, cfg)
       IN  /\ trades' = Append(trades, [ positionId |-> cl.id, symbol |-> pos.symbol,
                                         exitTsMs |-> cl.exitTsMs, exitPrice |-> cl.exitPrice,
                                         exitReason |-> cl.reason, pnlUsd |-> r.pnl ])
           /\ SetFrame(fr, [f EXCEPT !.pc = "alertSummary",
                              !.alert = [ type |-> "EXIT", reason |-> cl.reason,
                                          symbol |-> pos.symbol, positionId |-> cl.id,
                                          ret |-> cl.ret ]])
    /\ returned' = NoReturn
    /\ UNCHANGED << probe, poll, cfg, cycles, now, alive, started, inCycle, runtime, symbolsTbl,
                    signals, positions, alerts, hist >>

\* --------------------------------------------- sendEntryAlert / sendExitAlert
AlertSummary(fr) ==
    /\ alive /\ fr.pc = "alertSummary"
    /\ SetFrame(fr, [fr EXCEPT !.pc = "alertSend"])
    /\ returned' = NoReturn
    /\ UNCHANGED << probe, poll, cfg, cycles, now, alive, started, inCycle, runtime, symbolsTbl,
                    signals, positions, trades, alerts, hist >>

\* TelegramClient.sendMessage: null when disabled, null on a non-OK response (or
\* a response without a message id), else the message id.
sendMessage(enabled) == IF ~enabled THEN {NullNum} ELSE {NullNum, 1}

AlertSend(fr) ==
    /\ alive /\ fr.pc = "alertSend"
    /\ \E m \in sendMessage(cfg.telegramEnabled) :
          SetFrame(fr, [fr EXCEPT !.pc = "alertInsert", !.messageId = m])
    /\ returned' = NoReturn
    /\ UNCHANGED << probe, poll, cfg, cycles, now, alive, started, inCycle, runtime, symbolsTbl,
                    signals, positions, trades, alerts, hist >>

\* ------------------------------------------------- scanAndHandleSignals
PendingResult == [ state |-> "pending", decision |-> NoDecision, error |-> FALSE ]

\* A scan that is followed by another evaluation of the open positions.
EnterBatchThenExits(f, base) ==
    IF base > Len(f.symbols)
    THEN [f EXCEPT !.pc = "exitLoad", !.symbols = <<>>, !.base = 0, !.results = <<>>,
                   !.j = 0]
    ELSE LET n == Min2(cfg.symbolBatchSize, Len(f.symbols) - base + 1)
         IN  [f EXCEPT !.pc = "detect", !.base = base, !.j = 0,
                       !.results = [k \in 1..n |-> PendingResult]]

\* The frame at the start of the batch that begins at symbol number base, or
\* after the last batch.
EnterBatch(f, base) ==
    IF base > Len(f.symbols)
    THEN [f EXCEPT !.pc = "writeLastScan", !.symbols = <<>>, !.base = 0, !.results = <<>>,
                   !.j = 0]
    ELSE LET n == Min2(cfg.symbolBatchSize, Len(f.symbols) - base + 1)
         IN  [f EXCEPT !.pc = "detect", !.base = base, !.j = 0,
                       !.results = [k \in 1..n |-> PendingResult]]

\* The frame when the loop over the batch's results reaches result number j:
\* errors and null decisions are passed over, a decision enters handleSignal.
RECURSIVE EnterResult(_, _)
EnterResult(f, j) ==
    LET g == [f EXCEPT !.decision = NoDecision, !.signalId = 0, !.marginUsd = 0,
                       !.replaced = 0, !.outcome = "", !.closing = NoClose,
                       !.alert = NoAlert, !.messageId = NullNum]
    IN  IF j > Len(f.results) THEN EnterBatch(g, f.base + cfg.symbolBatchSize)
        ELSE IF f.results[j].error \/ f.results[j].decision = NoDecision
        THEN EnterResult(f, j + 1)
        ELSE [g EXCEPT !.pc = "hsFind", !.j = j, !.decision = f.results[j].decision]

\* handleSignal returns: the history notes the symbol as handled.
Handled(fr, f) ==
    /\ SetFrame(fr, EnterResult(f, f.j + 1))
    /\ Note([hist EXCEPT !.handled = @ \cup {f.decision.symbol}])

\* store.getActiveSymbols(maxSymbols): ordered by symbol.
getActiveSymbols(limit) ==
    LET In(x) == x \in symbolsTbl
        all == SelectSeq(Symbols, In)
    IN  SubSeq(all, 1, Min2(limit, Len(all)))

ScanLoad(fr) ==
    /\ alive /\ fr.pc = "scanLoad"
    /\ LET symbols == getActiveSymbols(cfg.maxSymbols)
       IN  SetFrame(fr, EnterBatch([fr EXCEPT !.symbols = symbols], 1))
    /\ returned' = NoReturn
    /\ UNCHANGED << probe, poll, cfg, cycles, now, alive, started, inCycle, runtime, symbolsTbl,
                    signals, positions, trades, alerts, hist >>

\* A batch loop that a failed detection ends, and the scan with it.
AfterDetectAbort(g) ==
    IF \E m \in 1..Len(g.results) : g.results[m].error
    THEN EnterBatch(g, Len(g.symbols) + 1)
    ELSE IF \E m \in 1..Len(g.results) : g.results[m].state = "pending" THEN g
    ELSE EnterResult(g, 1)

\* A loop over the results that starts as soon as one detection has settled.
AfterDetectEager(g) == EnterResult(g, 1)

\* The frame once a detection has settled: Promise.all waits for the others of
\* the batch, then the loop over the results runs.
AfterDetect(g) ==
    IF \E m \in 1..Len(g.results) : g.results[m].state = "pending" THEN g ELSE EnterResult(g, 1)

\* One detection of the batch settles: with a decision, with null, or with an
\* error that the map's catch turns into a result.  The detections of a batch
\* settle in any order; when the last has settled the loop over the results runs.
DetectSymbol(fr) ==
    /\ alive /\ fr.pc = "detect"
    /\ LET f == fr IN
       \E k \in { k \in 1..Len(f.results) : f.results[k].state = "pending" } :
       \E r \in { [ state |-> "done", decision |-> NoDecision, error |-> TRUE ] }
                \cup { [ state |-> "done", error |-> FALSE,
                         decision |-> detect(f.symbols[f.base + k - 1], kl, ra, cfg) ] :
                         kl \in DetectKlines, ra \in DetectRatios } :
          LET g == [f EXCEPT !.results[k] = r]
              symbol == f.symbols[f.base + k - 1]
          IN  /\ SetFrame(fr, AfterDetect(g))
              /\ Note([hist EXCEPT
                            !.detected = @ \cup {symbol},
                            !.decided = IF r.decision # NoDecision THEN @ \cup {symbol} ELSE @,
                            !.detectFailed = IF r.error THEN @ \cup {symbol} ELSE @])
    /\ returned' = NoReturn
    /\ UNCHANGED << probe, poll, cfg, cycles, now, alive, started, inCycle, runtime, symbolsTbl,
                    signals, positions, trades, alerts >>

\* store.insertAlert (the row's telegram_message_id, which nothing reads, is not
\* carried), and the return of the alert's caller: an exit alert ends
\* closePositionWithAlert (back in the exit loop, or in handleSignal before it
\* opens the replacement), an entry alert ends handleSignal.
AlertInsert(fr) ==
    /\ alive /\ fr.pc = "alertInsert"
    /\ LET f == fr IN
       /\ alerts' = Append(alerts, [ eventType |-> f.alert.type,
                                     exitReason |-> f.alert.reason,
                                     symbol |-> f.alert.symbol,
                                     positionId |-> f.alert.positionId ])
       /\ IF f.alert.ret = "nextPos" THEN Continue(fr, f)
          ELSE IF f.alert.ret = "hsOpen"
          THEN /\ SetFrame(fr, [f EXCEPT !.pc = "hsOpen", !.closing = NoClose,
                                        !.alert = NoAlert, !.messageId = NullNum])
               /\ UNCHANGED hist
          ELSE Handled(fr, f)
    /\ returned' = NoReturn
    /\ UNCHANGED << probe, poll, cfg, cycles, now, alive, started, inCycle, runtime, symbolsTbl,
                    signals, positions, trades >>

\* ---------------------------------------------------------- handleSignal
HsFind(fr) ==
    /\ alive /\ fr.pc = "hsFind"
    /\ LET f == fr
           existing == findSignal(f.decision.symbol, f.decision.closedHourStartMs)
       IN  IF existing # {}
           THEN /\ SetFrame(fr, EnterResult(f, f.j + 1))
                /\ Note([hist EXCEPT !.handled = @ \cup {f.decision.symbol},
                                             !.existing = @ \cup {f.decision.symbol}])
           ELSE SetFrame(fr, [f EXCEPT !.pc = "hsCreate"]) /\ UNCHANGED hist
    /\ returned' = NoReturn
    /\ UNCHANGED << probe, poll, cfg, cycles, now, alive, started, inCycle, runtime, symbolsTbl,
                    signals, positions, trades, alerts >>

\* xsp_signals: unique(symbol, hour_start_ms).  An insert that would break it fails.
UniqueViolation(decision) ==
    \E s \in signals : s.symbol = decision.symbol /\ s.hourStartMs = decision.closedHourStartMs

HsCreate(fr) ==
    /\ alive /\ fr.pc = "hsCreate"
    /\ LET f == fr
           signalId == Cardinality(signals) + 1
       IN  /\ ~UniqueViolation(f.decision)
           /\ signals' = signals \cup
                 { [ id |-> signalId, symbol |-> f.decision.symbol,
                     hourStartMs |-> f.decision.closedHourStartMs,
                     nextOpenPrice |-> f.decision.nextOpenPrice,
                     outcome |-> "PENDING" ] }
           /\ SetFrame(fr, [f EXCEPT !.signalId = signalId,
                                    !.pc = IF cfg.preventDuplicateSymbols THEN "hsDup"
                                           ELSE "hsSummary"])
    /\ returned' = NoReturn
    /\ UNCHANGED << probe, poll, cfg, cycles, now, alive, started, inCycle, runtime, symbolsTbl,
                    positions, trades, alerts, hist >>

\* A handleSignal that does not look for an open position of the symbol.
HsDupSkipped(fr) ==
    /\ alive /\ fr.pc = "hsDup"
    /\ SetFrame(fr, [fr EXCEPT !.pc = "hsSummary"])
    /\ returned' = NoReturn
    /\ UNCHANGED << probe, poll, cfg, cycles, now, alive, started, inCycle, runtime, symbolsTbl,
                    signals, positions, trades, alerts, hist >>

HsDup(fr) ==
    /\ alive /\ fr.pc = "hsDup"
    /\ LET f == fr
           openOnSame == getOpenPositionBySymbol(f.decision.symbol)
       IN  SetFrame(fr, IF openOnSame # {}
                       THEN [f EXCEPT !.pc = "hsOutcome", !.outcome = "MISSED_DUPLICATE"]
                       ELSE [f EXCEPT !.pc = "hsSummary"])
    /\ returned' = NoReturn
    /\ UNCHANGED << probe, poll, cfg, cycles, now, alive, started, inCycle, runtime, symbolsTbl,
                    signals, positions, trades, alerts, hist >>

\* Math.min(entryEquity * entryMarginFraction, entryMarginCapUsd, cash)
\* A margin that leaves the cash out of the minimum.
MarginUsdWithoutCash(summary, c) ==
    Min2((summary.currentEquityUsd * c.entryMarginFraction) \div 100, c.entryMarginCapUsd)

MarginUsd(summary, c) ==
    Min2(Min2((summary.currentEquityUsd * c.entryMarginFraction) \div 100,
              c.entryMarginCapUsd),
         summary.cashUsd)

HsSummary(fr) ==
    /\ alive /\ fr.pc = "hsSummary"
    /\ LET f == fr
           marginUsd == MarginUsd(getSummary(cfg.startingEquityUsd), cfg)
       IN  SetFrame(fr,
              IF f.decision.nextOpenPrice \in NonFinite \/ f.decision.nextOpenPrice <= 0
              THEN [f EXCEPT !.pc = "hsOutcome", !.outcome = "MISSED_INVALID_PRICE"]
              ELSE IF marginUsd < cfg.minActiveCashUsd
              THEN [f EXCEPT !.pc = "hsOutcome", !.outcome = "MISSED_NO_CASH"]
              ELSE [f EXCEPT !.pc = "hsOpenList", !.marginUsd = marginUsd])
    /\ returned' = NoReturn
    /\ UNCHANGED << probe, poll, cfg, cycles, now, alive, started, inCycle, runtime, symbolsTbl,
                    signals, positions, trades, alerts, hist >>

\* The metric of the configured basis; a null latest return counts as 0.
Metric(pos, c) ==
    LET v == IF c.replaceThresholdBasis = "levered" THEN pos.latestLeveragedReturnPct
             ELSE pos.latestUnleveredReturnPct
    IN  IF v = NullNum THEN 0 ELSE v

\* A selection that takes the last row, in the order read, among those of least
\* metric.
selectLastOfWorst(openPositions, c) ==
    IF Len(openPositions) = 0 THEN 0
    ELSE LET least == { k \in 1..Len(openPositions) :
                          \A m \in 1..Len(openPositions) :
                             Metric(positions[openPositions[k]], c)
                                <= Metric(positions[openPositions[m]], c) }
         IN  openPositions[CHOOSE k \in least : \A m \in least : k >= m]

\* [...openPositions].sort(by metric)[0]: the first row, in the order read, among
\* those of least metric; 0 is null.
selectWorstReplaceCandidate(openPositions, c) ==
    IF Len(openPositions) = 0 THEN 0
    ELSE LET least == { k \in 1..Len(openPositions) :
                          \A m \in 1..Len(openPositions) :
                             Metric(positions[openPositions[k]], c)
                                <= Metric(positions[openPositions[m]], c) }
         IN  openPositions[CHOOSE k \in least : \A m \in least : k <= m]

\* A cap test that lets one position more in.
AtCapExceeded(openPositions, c) == Len(openPositions) > c.maxOpenPositions

AtCap(openPositions, c) == Len(openPositions) >= c.maxOpenPositions

\* An eviction test that passes every candidate.
EvictableAlways(replaced, c) == replaced # 0

\* A candidate that may be evicted: there is one and it loses at least the threshold.
Evictable(replaced, c) ==
    ~(replaced = 0 \/ Metric(positions[replaced], c) > 0 - c.replaceThresholdPct)

\* A handleSignal that opens the new position without closing the evicted one.
HsOpenListNoClose(fr) ==
    /\ alive /\ fr.pc = "hsOpenList"
    /\ \E openPositions \in OpenOrders :
          LET replaced == selectWorstReplaceCandidate(openPositions, cfg)
          IN  SetFrame(fr,
                 IF ~AtCap(openPositions, cfg) THEN [fr EXCEPT !.pc = "hsOpen"]
                 ELSE IF ~Evictable(replaced, cfg)
                 THEN [fr EXCEPT !.pc = "hsOutcome", !.outcome = "MISSED_CAPACITY"]
                 ELSE [fr EXCEPT !.pc = "hsOpen", !.replaced = replaced])
    /\ returned' = NoReturn
    /\ UNCHANGED << probe, poll, cfg, cycles, now, alive, started, inCycle, runtime, symbolsTbl,
                    signals, positions, trades, alerts, hist >>

HsOpenList(fr) ==
    /\ alive /\ fr.pc = "hsOpenList"
    /\ LET f == fr IN
       \E openPositions \in OpenOrders :
          LET replaced == selectWorstReplaceCandidate(openPositions, cfg)
              exitMark == IF positions[replaced].latestMarkPrice # NullNum
                          THEN positions[replaced].latestMarkPrice
                          ELSE positions[replaced].entryPrice
          IN  SetFrame(fr,
                 IF ~AtCap(openPositions, cfg) THEN [f EXCEPT !.pc = "hsOpen"]
                 ELSE IF ~Evictable(replaced, cfg)
                 THEN [f EXCEPT !.pc = "hsOutcome", !.outcome = "MISSED_CAPACITY"]
                 ELSE [f EXCEPT !.pc = "closeUpdate", !.replaced = replaced,
                                !.closing = [ id |-> replaced, reason |-> "REPLACE",
                                              exitTsMs |-> now, exitPrice |-> exitMark,
                                              ret |-> "hsOpen" ]])
    /\ returned' = NoReturn
    /\ UNCHANGED << probe, poll, cfg, cycles, now, alive, started, inCycle, runtime, symbolsTbl,
                    signals, positions, trades, alerts, hist >>

\* store.openPosition: the row inserted.
NewPosition(decision, signalId, marginUsd, c) ==
    [ symbol |-> decision.symbol,
      signalId |-> signalId,
      status |-> "OPEN",
      entryTsMs |-> decision.closedHourEndMs,
      signalHourStartMs |-> decision.closedHourStartMs,
      entryPrice |-> decision.nextOpenPrice,
      entrySellRatio |-> decision.signalSellRatio,
      leverage |-> c.leverage,
      marginUsd |-> marginUsd,
      notionalUsd |-> marginUsd * c.leverage,
      qty |-> qtyFromNotional(marginUsd * c.leverage, decision.nextOpenPrice),
      takeProfitPct |-> c.takeProfitPct,
      deltaExitThreshold |-> c.deltaExitThreshold,
      replaceThresholdPct |-> c.replaceThresholdPct,
      latestMarkPrice |-> decision.nextOpenPrice,
      latestUnleveredReturnPct |-> 0,
      latestLeveragedReturnPct |-> 0,
      latestUnrealizedPnlUsd |-> 0,
      latestFundingAccruedUsd |-> 0,
      exitTsMs |-> 0,
      exitPrice |-> 0,
      exitReason |-> "",
      realizedUnleveredReturnPct |-> 0,
      realizedLeveragedReturnPct |-> 0,
      realizedPnlUsd |-> 0 ]

\* An open that takes over the symbol's CLOSED row when there is one.
openPositionOverClosed(row) ==
    LET closed == { id \in 1..Len(positions) :
                      positions[id].status = "CLOSED" /\ positions[id].symbol = row.symbol }
    IN  IF closed = {} THEN Append(positions, row)
        ELSE [positions EXCEPT ![CHOOSE id \in closed : TRUE] = row]

\* store.openPosition: an insert, the new row's id being the next one.
openPosition(row) == Append(positions, row)

HsOpen(fr) ==
    /\ alive /\ fr.pc = "hsOpen"
    /\ LET f == fr IN
       /\ positions' = openPosition(NewPosition(f.decision, f.signalId, f.marginUsd, cfg))
       /\ SetFrame(fr, [f EXCEPT !.pc = "hsOutcome",
                          !.outcome = IF f.replaced # 0 THEN "OPENED_REPLACEMENT" ELSE "OPENED",
                          !.alert = [ type |-> IF f.replaced # 0 THEN "ENTRY_REPLACE_OPEN_SHORT"
                                               ELSE "ENTRY_OPEN_SHORT",
                                      reason |-> "", symbol |-> f.decision.symbol,
                                      positionId |-> Len(positions) + 1,
                                      ret |-> "nextResult" ]])
    /\ returned' = NoReturn
    /\ UNCHANGED << probe, poll, cfg, cycles, now, alive, started, inCycle, runtime, symbolsTbl,
                    signals, trades, alerts, hist >>

setSignalOutcome(signalId, outcome) ==
    { IF s.id = signalId THEN [s EXCEPT !.outcome = outcome] ELSE s : s \in signals }

HsOutcome(fr) ==
    /\ alive /\ fr.pc = "hsOutcome"
    /\ LET f == fr IN
       /\ signals' = setSignalOutcome(f.signalId, f.outcome)
       /\ IF f.outcome \in {"OPENED", "OPENED_REPLACEMENT"}
          THEN SetFrame(fr, [f EXCEPT !.pc = "alertSummary"]) /\ UNCHANGED hist
          ELSE Handled(fr, f)
    /\ returned' = NoReturn
    /\ UNCHANGED << probe, poll, cfg, cycles, now, alive, started, inCycle, runtime, symbolsTbl,
                    positions, trades, alerts >>

\* ----------------------------------------------------- the end of a cycle
WriteLastScan(fr) ==
    /\ alive /\ fr.pc = "writeLastScan"
    /\ runtime' = setRuntimeValue("lastScan", fr.cycleNowTs)
    /\ Return(fr, [executed |-> TRUE, reason |-> ""])
    /\ UNCHANGED << probe, cfg, now, alive, symbolsTbl, signals, positions, trades,
                    alerts, hist >>

\* The awaited calls that can reject outside the detector: every storage call
\* throws the error it gets, every exchange call throws on a failed request, and
\* sendMessage's fetch can reject when Telegram is enabled.
CanThrow(f) ==
    /\ f.pc # "detect"
    /\ f.pc = "alertSend" => cfg.telegramEnabled

\* runCycle's catch: whatever an awaited call throws ends the cycle.
Throws(fr) ==
    /\ alive /\ CanThrow(fr)
    /\ Return(fr, [executed |-> FALSE, reason |-> "cycle_failed"])
    /\ Note([hist EXCEPT !.thrownAt = fr.pc,
                               !.thrownIn = IF fr.i > 0 THEN "position"
                                            ELSE IF fr.j > 0 THEN "signal"
                                            ELSE "cycle"])
    /\ UNCHANGED << probe, cfg, now, alive, runtime, symbolsTbl, signals, positions,
                    trades, alerts >>

Next ==
    \/ Tick
    \/ Shutdown
    \/ \E t \in Triggers : RunCycle(t)
    \/ \E fr \in call :
          \/ ReadLastScan(fr)
          \/ RefreshRead(fr) \/ RefreshFetch(fr) \/ RefreshUpsert(fr) \/ RefreshMark(fr)
          \/ ExitLoad(fr) \/ DtKlines(fr) \/ DtRatios(fr) \/ Ticker(fr) \/ UpdateMark(fr)
          \/ LiveRatios(fr) \/ CloseUpdate(fr) \/ CloseTrade(fr)
          \/ AlertSummary(fr) \/ AlertSend(fr) \/ AlertInsert(fr)
          \/ ScanLoad(fr) \/ DetectSymbol(fr)
          \/ HsFind(fr) \/ HsCreate(fr) \/ HsDup(fr) \/ HsSummary(fr) \/ HsOpenList(fr)
          \/ HsOpen(fr) \/ HsOutcome(fr)
          \/ WriteLastScan(fr) \/ Throws(fr)

Spec == Init /\ [][Next]_vars

\* ------------------------------------------------------------ properties
\* What runCycle can return.
Rejected == [ executed |-> FALSE, reason |-> "cycle_in_progress" ]
Failed == [ executed |-> FALSE, reason |-> "cycle_failed" ]
Executed == [ executed |-> TRUE, reason |-> "" ]

\* The signal rows of a decision's (symbol, hour start), and the OPEN rows of a
\* symbol, read off the tables.
RowsOf(decision) ==
    { s \in signals : s.symbol = decision.symbol /\ s.hourStartMs = decision.closedHourStartMs }
OpenOn(symbol) ==
    { id \in 1..Len(positions) : positions[id].status = "OPEN" /\ positions[id].symbol = symbol }

\* C1: at most one cycle is in flight at any time; a runCycle call is rejected
\* with cycle_in_progress only while a cycle is in flight, and the rejection
\* touches no table, leaves the flag and the cycle in flight as they are and
\* leaves no call behind; a cycle begins only when none is in flight.
C1_OneCycleAtATime ==
    [][ /\ Cardinality(call') <= 1
        /\ returned' = Rejected =>
              call # {} /\ call' = call /\ db' = db /\ inCycle' = inCycle
        /\ (\E g \in call' \ call : g.pc = "readLastScan") => call = {} /\ ~inCycle ]_vars

\* A call has just been rejected while a cycle was in flight.
C1_Witness == returned = Rejected /\ call # {} /\ inCycle

C3_CycleAlwaysReturns ==
    [][ /\ (call # {} /\ call' = {}) => returned' \in {Executed, Failed}
        /\ call' = {} => ~inCycle'
        /\ returned' = Rejected => inCycle ]_vars

\* A cycle has failed and returned, and the flag is clear.
C3_Witness == returned = Failed /\ call = {} /\ ~inCycle

\* C4 as stated: a cycle never fails because a call made while evaluating one
\* open position for exit threw.
C4_PositionFailureIsLocal == returned = Failed => hist.thrownIn # "position"

C6_SendFailureIsNotFatal == returned = Failed => hist.thrownAt # "alertSend"

\* C7 as stated: when the process has exited on a shutdown signal, no cycle was
\* left unfinished.
C7_ShutdownLetsCycleFinish == ~alive => call = {}

\* C8: no two signal rows share (symbol, hour start); handling a decision whose
\* (symbol, hour start) has a row changes no table and leaves handleSignal.
C8_SignalRowIsUnique ==
    /\ [](\A a, b \in signals :
             a.symbol = b.symbol /\ a.hourStartMs = b.hourStartMs => a = b)
    /\ [][ \A fr \in call :
              fr.pc = "hsFind" /\ RowsOf(fr.decision) # {} =>
                 /\ db' = db
                 /\ \A g \in call' :
                       \/ g = fr
                       \/ g.pc \in {"detect", "writeLastScan"}
                       \/ g.pc = "hsFind" /\ << g.base, g.j >> # << fr.base, fr.j >> ]_vars

\* A cycle that met a decision already recorded has returned executed.
C8_Witness == returned = Executed /\ hist.existing # {}

\* C9: with preventDuplicateSymbols, no symbol has two OPEN positions; once
\* handleSignal is past its duplicate check an OPEN position of the decision's
\* symbol is the one this signal opened, or else the outcome is MISSED_DUPLICATE;
\* a MISSED_DUPLICATE signal has no position.
C9_OneOpenPerSymbol ==
    cfg.preventDuplicateSymbols =>
       /\ \A k \in 1..Len(Symbols) : Cardinality(OpenOn(Symbols[k])) <= 1
       /\ \A fr \in call :
             fr.decision # NoDecision /\ fr.pc \notin {"hsFind", "hsCreate", "hsDup"} =>
                \A id \in OpenOn(fr.decision.symbol) :
                   positions[id].signalId = fr.signalId \/ fr.outcome = "MISSED_DUPLICATE"
       /\ \A s \in signals :
             s.outcome = "MISSED_DUPLICATE" =>
                \A id \in 1..Len(positions) : positions[id].signalId # s.id

\* A signal for a symbol with an OPEN position has been recorded MISSED_DUPLICATE.
C9_Witness ==
    /\ cfg.preventDuplicateSymbols
    /\ \E s \in signals : s.outcome = "MISSED_DUPLICATE" /\ OpenOn(s.symbol) # {}

\* C10: the OPEN positions never outnumber maxOpenPositions; when handleSignal is
\* about to open a position there is room, and if it found the cap reached, the
\* one position it chose has been closed with reason REPLACE and that made the
\* room.
C10_OpenWithinCap ==
    /\ Cardinality(OpenIds) <= cfg.maxOpenPositions
    /\ \A fr \in call :
          fr.pc = "hsOpen" =>
             /\ Cardinality(OpenIds) < cfg.maxOpenPositions
             /\ fr.replaced # 0 =>
                   /\ positions[fr.replaced].status = "CLOSED"
                   /\ positions[fr.replaced].exitReason = "REPLACE"
                   /\ Cardinality(OpenIds) = cfg.maxOpenPositions - 1

\* At the cap, a replacement has been closed and the new position opened.
C10_Witness ==
    \E fr \in call :
       /\ fr.pc = "hsOutcome" /\ fr.outcome = "OPENED_REPLACEMENT"
       /\ Cardinality(OpenIds) = cfg.maxOpenPositions
       /\ \E k \in 1..Len(trades) : trades[k].exitReason = "REPLACE"

\* C11: a position closed with reason REPLACE, or about to be, has a metric at
\* or below -replaceThresholdPct; a signal given MISSED_CAPACITY found the cap
\* reached with every OPEN position above that bound, and closes none.
C11_ReplaceOnlyBelowBound ==
    /\ \A id \in 1..Len(positions) :
          positions[id].exitReason = "REPLACE" =>
             Metric(positions[id], cfg) <= 0 - cfg.replaceThresholdPct
    /\ \A fr \in call :
          /\ fr.closing.reason = "REPLACE" =>
                Metric(positions[fr.closing.id], cfg) <= 0 - cfg.replaceThresholdPct
          /\ fr.outcome = "MISSED_CAPACITY" =>
                /\ fr.replaced = 0 /\ fr.closing = NoClose
                /\ Cardinality(OpenIds) >= cfg.maxOpenPositions
                /\ \A id \in OpenIds :
                      Metric(positions[id], cfg) > 0 - cfg.replaceThresholdPct

\* At the cap with no position at or below the bound, a signal is being given
\* MISSED_CAPACITY.
C11_Witness ==
    \E fr \in call :
       /\ fr.pc = "hsOutcome" /\ fr.outcome = "MISSED_CAPACITY"
       /\ OpenIds # {}

\* ------------------------------------------- functions examined on their own
\* The engine at rest: nothing scheduled, nothing stored.
Idle ==
    /\ now = T0 /\ alive = TRUE /\ started = FALSE /\ inCycle = FALSE
    /\ call = {} /\ returned = NoReturn
    /\ runtime = [lastScan |-> 0, lastRefresh |-> T0]
    /\ symbolsTbl = {} /\ signals = {} /\ positions = <<>>
    /\ trades = <<>> /\ alerts = <<>>
    /\ hist = NoHist /\ cycles = 0 /\ poll = NoPoll
Still == UNCHANGED << cfg, now, alive, started, inCycle, call, returned, runtime,
                      symbolsTbl, signals, positions, trades, alerts, hist, cycles, poll >>

\* ----------------------------------------------------------- decideExit
\* The part of a position row that decideExit reads, opened at T0.
ExitPos == [ leverage |-> 5, takeProfitPct |-> 10, entrySellRatio |-> 30,
             deltaExitThreshold |-> 10, entryTsMs |-> T0 ]
ExitUnlevered == {0 - 25, 0 - 20, 0 - 19, 0, 9, 10, 15}
ExitLatest ==
    { <<>>, << [tsMs |-> T0, sellRatio |-> 50], [tsMs |-> T0 + HOUR_MS, sellRatio |-> 30] >> }
    \cup { << [tsMs |-> T0, sellRatio |-> r] >> : r \in {NullNum, 30, 39, 40, 50} }
ExitHeld == {0, HOUR_MS - 1, HOUR_MS, 2 * HOUR_MS}

InitDecideExit ==
    /\ Idle
    /\ cfg \in { [BaseConfig EXCEPT !.maxHoldHours = h] : h \in {0, 1} }
    /\ probe \in { [ fn |-> "decideExit", pos |-> ExitPos, unleveredPct |-> u,
                     nowTs |-> T0 + held, ratios |-> rs, done |-> FALSE, out |-> "" ] :
                     u \in ExitUnlevered, held \in ExitHeld, rs \in ExitLatest }
ApplyDecideExit ==
    /\ probe.fn = "decideExit" /\ ~probe.done
    /\ probe' = [probe EXCEPT !.done = TRUE,
                    !.out = decideExit(probe.pos, probe.unleveredPct, probe.nowTs,
                                       probe.ratios, cfg)]
    /\ Still
SpecDecideExit == InitDecideExit /\ [][ApplyDecideExit]_vars

\* The four triggers, each on its own.
LiqSatisfied ==
    probe.unleveredPct <= liquidationThresholdUnleveredPct(probe.pos.leverage)
TpSatisfied == probe.unleveredPct >= probe.pos.takeProfitPct
DeltaSatisfied ==
    /\ Len(probe.ratios) > 0
    /\ probe.ratios[Len(probe.ratios)].sellRatio # NullNum
    /\ probe.ratios[Len(probe.ratios)].sellRatio - probe.pos.entrySellRatio
          >= probe.pos.deltaExitThreshold
TimeSatisfied ==
    /\ cfg.maxHoldHours > 0
    /\ probe.nowTs - probe.pos.entryTsMs >= cfg.maxHoldHours * HOUR_MS

\* C12: the live exit reason is the first satisfied trigger in the order LIQ,
\* TP, DELTA, TIME, and there is no exit when none is satisfied.
C12_FirstSatisfiedTrigger ==
    probe.done =>
       /\ probe.out = "LIQ"   <=> LiqSatisfied
       /\ probe.out = "TP"    <=> ~LiqSatisfied /\ TpSatisfied
       /\ probe.out = "DELTA" <=> ~LiqSatisfied /\ ~TpSatisfied /\ DeltaSatisfied
       /\ probe.out = "TIME"  <=>
             ~LiqSatisfied /\ ~TpSatisfied /\ ~DeltaSatisfied /\ TimeSatisfied
       /\ probe.out = ""      <=>
             ~LiqSatisfied /\ ~TpSatisfied /\ ~DeltaSatisfied /\ ~TimeSatisfied

\* A decision taken with the sell-ratio delta and the holding time both
\* satisfied: DELTA wins.
C12_Witness ==
    /\ probe.done /\ DeltaSatisfied /\ TimeSatisfied
    /\ probe.out = "DELTA"

\* ------------------------------------------------- evaluateDowntimeExit
\* A position opened at HOUR_MS, examined at or after T0.
DowntimePos == [ entryPrice |-> 100, leverage |-> 5, takeProfitPct |-> 10,
                 entrySellRatio |-> 20, deltaExitThreshold |-> 10, entryTsMs |-> HOUR_MS ]
DowntimeShapes == {"flat", "up", "down", "both"}
DowntimeCandles ==
    { <<>> }
    \cup { [k \in 1..3 |-> Candle(k * HOUR_MS, sh[k], 5000, 100)] :
             sh \in [1..3 -> DowntimeShapes] }
DowntimeRatios ==
    { <<>> }
    \cup { << [tsMs |-> 2 * HOUR_MS, sellRatio |-> a], [tsMs |-> T0, sellRatio |-> b] >> :
             a \in {20, 40, NullNum}, b \in {20, 40, NullNum} }

InitDowntime ==
    /\ Idle
    /\ cfg \in { [BaseConfig EXCEPT !.maxHoldHours = h] : h \in {0, 1, 2} }
    /\ probe \in { [ fn |-> "evaluateDowntimeExit", pos |-> DowntimePos, lastScanTs |-> ls,
                     nowTs |-> n, klines |-> ks, ratios |-> rs, done |-> FALSE, out |-> {} ] :
                     n \in {T0 - (HOUR_MS \div 2), T0, T0 + (HOUR_MS \div 2)},
                     ls \in {0, 2 * HOUR_MS, T0 - (HOUR_MS \div 2), T0},
                     ks \in DowntimeCandles, rs \in DowntimeRatios }
    /\ probe.lastScanTs <= probe.nowTs
ApplyDowntime ==
    /\ probe.fn = "evaluateDowntimeExit" /\ ~probe.done
    /\ probe' = [probe EXCEPT !.done = TRUE,
                    !.out = evaluateDowntimeExit(probe.pos, probe.lastScanTs, probe.nowTs,
                                                 probe.klines, probe.ratios, cfg)]
    /\ Still
SpecDowntime == InitDowntime /\ [][ApplyDowntime]_vars

\* The candidates of the examined call, and the rank of a reason in a tie.
ProbeCandidates ==
    downtimeCandidates(probe.pos, probe.lastScanTs, probe.nowTs, probe.klines,
                       probe.ratios, cfg)
Rank(reason) ==
    CASE reason = "LIQ" -> 1 [] reason = "TP" -> 2 [] reason = "DELTA" -> 3
      [] reason = "TIME" -> 4 [] OTHER -> 5

\* C13: downtime reconciliation selects the candidate with the earliest exit
\* timestamp, a tie going to the higher priority: LIQ, TP, DELTA, TIME.  A
\* selection is made whenever the window is not empty, candles were returned and
\* there is a candidate.
C13_EarliestThenPriority ==
    probe.done =>
       /\ Cardinality(probe.out) <= 1
       /\ ( /\ Len(probe.klines) > 0
            /\ probe.nowTs > WindowStart(probe.pos, probe.lastScanTs, probe.nowTs, cfg)
            /\ ProbeCandidates # {} ) => probe.out # {}
       /\ \A x \in probe.out :
             /\ \E a \in ProbeCandidates :
                   /\ a.reason = x.reason /\ a.exitTsMs = x.exitTsMs
                   /\ a.exitPrice = x.exitPrice
             /\ \A b \in ProbeCandidates :
                   \/ x.exitTsMs < b.exitTsMs
                   \/ x.exitTsMs = b.exitTsMs /\ Rank(x.reason) <= Rank(b.reason)

\* A DELTA exit selected over a later LIQ, and a tie in time that went to the
\* higher priority, are both cases of the examined calls; this is the first.
C13_Witness ==
    /\ probe.done
    /\ \E x \in probe.out : x.reason = "DELTA"
    /\ \E b \in ProbeCandidates :
          b.reason = "LIQ" /\ \A x \in probe.out : x.exitTsMs < b.exitTsMs

\* -------------------------------------------------- properties, continued
\* The trade rows written for a position.
TradesOf(id) == { k \in 1..Len(trades) : trades[k].positionId = id }

\* C14: outside the two statements of store.closePosition, every CLOSED position
\* has exactly one trade row and no OPEN position has one, also after a storage
\* failure in the middle of a close.
C14_OneTradePerClose ==
    (\A fr \in call : fr.pc # "closeTrade") =>
       \A id \in 1..Len(positions) :
          /\ positions[id].status = "CLOSED" => Cardinality(TradesOf(id)) = 1
          /\ positions[id].status = "OPEN" => TradesOf(id) = {}

\* C15: OPEN to CLOSED is terminal: no step reopens a CLOSED position, updates
\* its mark fields, or changes its exit timestamp, price, reason or realized
\* figures; its row stays as it is.
C15_ClosedIsTerminal ==
    [][ /\ Len(positions') >= Len(positions)
        /\ \A id \in 1..Len(positions) :
              positions[id].status = "CLOSED" => positions'[id] = positions[id] ]_vars

\* A symbol whose position was closed has been opened again, as a new row.
C15_Witness ==
    \E i, j \in 1..Len(positions) :
       /\ i < j /\ positions[i].symbol = positions[j].symbol
       /\ positions[i].status = "CLOSED" /\ positions[j].status = "OPEN"

\* C16: no signal remains PENDING after the cycle that created it has ended.
C16_NoPendingAfterCycle ==
    call = {} => \A s \in signals : s.outcome # "PENDING"

\* --------------------------------------------- handleSignal: the margin
\* The summary handleSignal reads and the sizing part of the configuration.
MarginEquity == {1000, 1600, 10000}
MarginCash == {0, 300, 600, 1600, 10000}
MarginFraction == {10, 50, 100}
MarginCap == {400, 500, 2000}
MarginDecision ==
    [ symbol |-> "AUSDT", closedHourStartMs |-> T0 - HOUR_MS, closedHourEndMs |-> T0,
      nextOpenPrice |-> 100, signalSellRatio |-> 20 ]

InitMargin ==
    /\ Idle
    /\ cfg \in { [BaseConfig EXCEPT !.entryMarginFraction = f, !.entryMarginCapUsd = cap] :
                   f \in MarginFraction, cap \in MarginCap }
    /\ probe \in { [ fn |-> "handleSignal",
                     summary |-> [ cashUsd |-> cash, currentEquityUsd |-> eq,
                                   openPositions |-> 0 ],
                     done |-> FALSE, opened |-> FALSE, row |-> [ marginUsd |-> 0 ] ] :
                     eq \in MarginEquity, cash \in MarginCash }
\* handleSignal from the summary to the row it opens, on an engine with room.
ApplyMargin ==
    /\ probe.fn = "handleSignal" /\ ~probe.done
    /\ LET marginUsd == MarginUsd(probe.summary, cfg)
       IN  probe' = [probe EXCEPT
                        !.done = TRUE,
                        !.opened = ~(marginUsd < cfg.minActiveCashUsd),
                        !.row = IF marginUsd < cfg.minActiveCashUsd THEN [ marginUsd |-> 0 ]
                                ELSE NewPosition(MarginDecision, 1, marginUsd, cfg)]
    /\ Still
SpecMargin == InitMargin /\ [][ApplyMargin]_vars

\* C17: the margin of an opened position is the least of equity times
\* entryMarginFraction, entryMarginCapUsd and cash, all from the summary read
\* while handling its signal.
C17_MarginIsMinOfThree ==
    (probe.done /\ probe.opened) =>
       LET byFraction == (probe.summary.currentEquityUsd * cfg.entryMarginFraction) \div 100
           m == probe.row.marginUsd
       IN  /\ m <= byFraction /\ m <= cfg.entryMarginCapUsd /\ m <= probe.summary.cashUsd
           /\ m \in {byFraction, cfg.entryMarginCapUsd, probe.summary.cashUsd}

\* Cap 500, fraction 0.1, equity 10000 and cash 300: the position opens with
\* margin 300.
C17_Witness ==
    /\ probe.done /\ probe.opened
    /\ cfg.entryMarginCapUsd = 500 /\ cfg.entryMarginFraction = 10
    /\ probe.summary.currentEquityUsd = 10000 /\ probe.summary.cashUsd = 300
    /\ probe.row.marginUsd = 300

\* --------------------------------------------- V16SignalDetector.detect
\* What getKlines1h(symbol, 3) returns at T0: up to three hourly candles ending
\* with the current one, the earlier hours with or without volume.
BackfillKlines ==
    { <<>>, << Candle(T0, "flat", 5000, 100) >>,
      << Candle(T0, "flat", 5000, 100), Candle(T0, "flat", 5000, 100) >> }
    \cup { << Candle(T0 - HOUR_MS, "flat", v, 100), Candle(T0, "flat", 5000, o) >> :
             v \in {0, 5000}, o \in {0, 100} }
    \cup { << Candle(T0 - 2 * HOUR_MS, "flat", u, 100), Candle(T0 - HOUR_MS, "flat", v, 100),
              Candle(T0, "flat", 5000, o) >> :
             u \in {0, 5000}, v \in {0, 5000}, o \in {0, 100} }
\* What getAccountRatio1h(symbol, 10) returns: for each of the last four hours
\* no row, or a row with a sell ratio or with none.
RatioPresent(row) == row.present
BackfillRatiosOf(slot) ==
    LET rows == [k \in 1..4 |-> [ tsMs |-> T0 - (4 - k) * HOUR_MS, sellRatio |-> slot[k].r,
                                  present |-> slot[k].present ]]
        kept == SelectSeq(rows, RatioPresent)
    IN  [k \in 1..Len(kept) |-> [ tsMs |-> kept[k].tsMs, sellRatio |-> kept[k].sellRatio ]]
BackfillRatios ==
    { BackfillRatiosOf(slot) :
        slot \in [1..4 -> [present : BOOLEAN, r : {20, 40, NullNum}]] }

\* The last scan lies zero, one or three hours back.
InitDetect ==
    /\ Idle
    /\ cfg = BaseConfig
    /\ probe \in { [ fn |-> "detect", lastScanTs |-> ls, klines |-> ks, ratios |-> rs,
                     done |-> FALSE, out |-> NoDecision ] :
                     ls \in {0, T0 - HOUR_MS, T0}, ks \in BackfillKlines,
                     rs \in BackfillRatios }
ApplyDetect ==
    /\ probe.fn = "detect" /\ ~probe.done
    /\ probe' = [probe EXCEPT !.done = TRUE,
                    !.out = detect("AUSDT", probe.klines, probe.ratios, cfg)]
    /\ Still
SpecDetect == InitDetect /\ [][ApplyDetect]_vars

EntryAlertsOf(id) ==
    { k \in 1..Len(alerts) :
        /\ alerts[k].positionId = id
        /\ alerts[k].eventType \in {"ENTRY_OPEN_SHORT", "ENTRY_REPLACE_OPEN_SHORT"} }
ExitAlertsOf(id) ==
    { k \in 1..Len(alerts) : alerts[k].positionId = id /\ alerts[k].eventType = "EXIT" }

\* C19: after a first cycle in which nothing failed but, at most, a Telegram
\* delivery, every position has exactly one entry alert row and every CLOSED
\* position exactly one exit alert row.
C19_OneAlertRowPerEvent ==
    (call = {} /\ cycles <= 1 /\ hist.thrownAt \in {"", "alertSend"}) =>
       \A id \in 1..Len(positions) :
          /\ Cardinality(EntryAlertsOf(id)) = 1
          /\ positions[id].status = "CLOSED" => Cardinality(ExitAlertsOf(id)) = 1

\* ------------------------------------- TelegramCommandService: /scan
\* The message handleCommand sends once runCycle("manual") has returned.
scanReplyAlwaysComplete(result) == "Manual scan complete."

scanReply(result) ==
    IF ~result.executed
    THEN "Manual scan skipped (" \o (IF result.reason = "" THEN "unknown" ELSE result.reason)
            \o ")."
    ELSE "Manual scan complete."

\* pollOnce hands a /scan command to handleCommand, which sends "Manual scan
\* requested. Running now..." first.  The poller runs only once start() has
\* started it, and only with Telegram enabled.
ScanRequested ==
    /\ alive /\ started /\ cfg.telegramEnabled
    /\ poll.pc = "idle"
    /\ poll' = [ pc |-> "call", result |-> NoReturn, sent |-> "" ]
    /\ returned' = NoReturn
    /\ UNCHANGED << probe, cfg, now, alive, started, inCycle, call, runtime, symbolsTbl,
                    signals, positions, trades, alerts, hist, cycles >>

\* handleCommand calls runCycle("manual"): refused at its first line when a
\* cycle is in progress, else a cycle of the poller's begins.
ScanCall ==
    /\ alive /\ poll.pc = "call"
    /\ IF CycleBusy
       THEN /\ returned' = [executed |-> FALSE, reason |-> "cycle_in_progress"]
            /\ poll' = [poll EXCEPT !.pc = "reply",
                           !.result = [executed |-> FALSE, reason |-> "cycle_in_progress"]]
            /\ UNCHANGED << inCycle, call, hist, cycles >>
       ELSE /\ cycles < MaxCycles
            /\ inCycle' = TRUE
            /\ call' = call \cup { [NewFrame EXCEPT !.pc = "readLastScan", !.cycleNowTs = now,
                                                    !.manual = TRUE] }
            /\ returned' = NoReturn
            /\ hist' = [NoHist EXCEPT !.runtime = runtime]
            /\ poll' = [poll EXCEPT !.pc = "running"]
            /\ UNCHANGED cycles
    /\ UNCHANGED << probe, cfg, now, alive, started, runtime, symbolsTbl, signals, positions,
                    trades, alerts >>

\* handleCommand sends the message for the result and returns.
ScanReply ==
    /\ alive /\ poll.pc = "reply"
    /\ poll' = [poll EXCEPT !.pc = "idle", !.sent = scanReply(poll.result)]
    /\ returned' = NoReturn
    /\ UNCHANGED << probe, cfg, now, alive, started, inCycle, call, runtime, symbolsTbl,
                    signals, positions, trades, alerts, hist, cycles >>

\* A sendMessage of handleCommand throws: pollOnce rejects, the interval's catch
\* logs "telegram poll failed", and the command is over.
PollThrows ==
    /\ alive /\ poll.pc \in {"call", "reply"}
    /\ poll' = NoPoll
    /\ returned' = NoReturn
    /\ UNCHANGED << probe, cfg, now, alive, started, inCycle, call, runtime, symbolsTbl,
                    signals, positions, trades, alerts, hist, cycles >>

\* The engine with its command poller: start()'s first cycle, then the
\* scheduler's cycles and the poller's /scan commands.
InitScan ==
    /\ Init
    /\ cfg = BaseConfig
NextScan ==
    \/ Tick
    \/ Shutdown
    \/ RunCycle(IF started THEN "timer" ELSE "manual")
    \/ ScanRequested \/ ScanCall \/ ScanReply \/ PollThrows
    \/ \E fr \in call :
          \/ ReadLastScan(fr)
          \/ RefreshRead(fr) \/ RefreshFetch(fr) \/ RefreshUpsert(fr) \/ RefreshMark(fr)
          \/ ExitLoad(fr) \/ DtKlines(fr) \/ DtRatios(fr) \/ Ticker(fr) \/ UpdateMark(fr)
          \/ LiveRatios(fr) \/ CloseUpdate(fr) \/ CloseTrade(fr)
          \/ AlertSummary(fr) \/ AlertSend(fr) \/ AlertInsert(fr)
          \/ ScanLoad(fr) \/ DetectSymbol(fr)
          \/ HsFind(fr) \/ HsCreate(fr) \/ HsDup(fr) \/ HsSummary(fr) \/ HsOpenList(fr)
          \/ HsOpen(fr) \/ HsOutcome(fr)
          \/ WriteLastScan(fr) \/ Throws(fr)
SpecScan == InitScan /\ [][NextScan]_vars

\* The poller's command has been answered.
Replied == poll.pc = "idle" /\ poll.sent # ""

\* C20 as stated: a /scan never adds a cycle to one in progress and is then
\* answered with the skip message and its reason; a manual scan that ran is
\* answered with the completion message.
C20_RunIsFollowedByCompletion ==
    /\ \A fr \in call : fr.manual => call = {fr}
    /\ Replied =>
          IF poll.result.reason = "cycle_in_progress"
          THEN poll.sent = "Manual scan skipped (cycle_in_progress)."
          ELSE poll.sent = "Manual scan complete."

\* C20: a /scan never adds a cycle to one in progress; the answer to a /scan is
\* the completion message exactly when its cycle ran to the end, and otherwise
\* the skip message with the reason: cycle_in_progress when it was refused,
\* cycle_failed when its cycle ran and failed.
C20_ReplyTellsTheResult ==
    /\ \A fr \in call : fr.manual => call = {fr} /\ poll.pc = "running"
    /\ Replied =>
          /\ poll.result.executed => poll.sent = "Manual scan complete."
          /\ ~poll.result.executed =>
                /\ poll.result.reason \in {"cycle_in_progress", "cycle_failed"}
                /\ poll.sent = "Manual scan skipped (" \o poll.result.reason \o ")."

\* A /scan has been answered with the skip message while the cycle that was in
\* progress when it arrived, not the poller's, is still running.
C20_Witness ==
    /\ Replied /\ poll.sent = "Manual scan skipped (cycle_in_progress)."
    /\ call # {} /\ \A fr \in call : ~fr.manual

\* ------------------------------------------------ functions of the engine
\* Calls of functions that read no table: the arguments, then the result.  The
\* entry prices divide 100, so that the percentage is a whole number and the
\* division loses nothing.
InitCall ==
    /\ now = T0 /\ alive = TRUE /\ started = FALSE /\ inCycle = FALSE
    /\ call = {} /\ returned = NoReturn
    /\ runtime = [lastScan |-> 0, lastRefresh |-> T0]
    /\ symbolsTbl = {} /\ signals = {} /\ trades = <<>> /\ alerts = <<>>
    /\ hist = NoHist /\ cycles = 0 /\ poll = NoPoll
    /\ \/ /\ cfg = BaseConfig
          /\ positions = <<>>
          /\ probe \in { [ fn |-> "shortUnleveredReturnPct", entryPrice |-> e,
                           exitPrice |-> x, done |-> FALSE, out |-> 0 ] :
                           e \in {1, 2, 4, 5, 10, 20, 25, 50, 100, 0, 0 - 5} \cup NonFinite,
                           x \in (0 - 2)..30 \cup {99, 100, 101, 250} \cup NonFinite }
       \* A position opened under BaseConfig and since marked, held by an engine
       \* that was started again with other thresholds in its configuration.
       \/ /\ cfg \in { [BaseConfig EXCEPT !.takeProfitPct = tp, !.deltaExitThreshold = d,
                                           !.replaceThresholdPct = r] :
                          tp \in {10, 20}, d \in {10, 20}, r \in {5, 15} }
          /\ positions \in
                { << [NewPosition(MarginDecision, 1, 400, BaseConfig)
                        EXCEPT !.latestUnleveredReturnPct = u,
                               !.latestLeveragedReturnPct = u * BaseConfig.leverage] >> :
                    u \in {0 - 10, 0, 15} }
          /\ probe \in { [ fn |-> "riskRules", ratios |-> rs, done |-> FALSE,
                           out |-> [ exit |-> "", evict |-> FALSE ] ] :
                           rs \in { <<>>, << [tsMs |-> T0, sellRatio |-> 35] >>,
                                     << [tsMs |-> T0, sellRatio |-> 45] >> } }
       \* A position and a price, taken as the live mark and as the high and low of
       \* the one candle of its window; entry prices, leverages and take-profit
       \* percentages for which the levels and the returns are whole numbers.
       \/ /\ cfg = [BaseConfig EXCEPT !.maxHoldHours = 0]
          /\ positions = <<>>
          /\ probe \in { [ fn |-> "levels", price |-> p, done |-> FALSE,
                           out |-> [ live |-> "", reconciled |-> {} ],
                           pos |-> [ entryPrice |-> e, leverage |-> l, takeProfitPct |-> tp,
                                     entryTsMs |-> T0 - HOUR_MS, entrySellRatio |-> 20,
                                     deltaExitThreshold |-> 10 ] ] :
                           e \in {20, 50, 100}, l \in {1, 2, 4, 5, 10},
                           tp \in {5, 10, 20, 50}, p \in 1..220 }
          /\ (probe.pos.entryPrice * (100 - probe.pos.takeProfitPct)) % 100 = 0
          /\ probe.pos.entryPrice % probe.pos.leverage = 0
ApplyCall ==
    /\ ~probe.done
    /\ probe' = [probe EXCEPT
                    !.done = TRUE,
                    !.out = IF probe.fn = "shortUnleveredReturnPct"
                            THEN shortUnleveredReturnPct(probe.entryPrice, probe.exitPrice)
                            ELSE IF probe.fn = "levels"
                            THEN [ live |-> decideExitBeforeRatios(probe.pos,
                                               shortUnleveredReturnPct(probe.pos.entryPrice,
                                                                       probe.price)),
                                   reconciled |->
                                       downtimeCandidates(probe.pos, 0, T0,
                                           << [ Candle(T0 - HOUR_MS, "flat", 5000, probe.price)
                                                  EXCEPT !.high = probe.price,
                                                         !.low = probe.price,
                                                         !.close = probe.price ] >>,
                                           <<>>, cfg) ]
                            ELSE [ exit |-> decideExit(positions[1],
                                                       positions[1].latestUnleveredReturnPct,
                                                       T0, probe.ratios, cfg),
                                   evict |-> Evictable(1, cfg) ]]
    /\ Still
SpecCall == InitCall /\ [][ApplyCall]_vars

\* C21: shortUnleveredReturnPct is 0 when exit equals entry and positive exactly
\* when exit < entry, for positive finite prices, where it is
\* (entry - exit) / entry * 100; it is 0 when either price is not finite or <= 0.
C21_ShortReturnSign ==
    (probe.fn = "shortUnleveredReturnPct" /\ probe.done) =>
       LET e == probe.entryPrice
           x == probe.exitPrice
       IN  IF e \in NonFinite \/ x \in NonFinite \/ e <= 0 \/ x <= 0
           THEN probe.out = 0
           ELSE /\ probe.out * e = (e - x) * 100
                /\ x = e => probe.out = 0
                /\ probe.out > 0 <=> x < e

\* The return of a short whose price fell, computed.
C21_Witness ==
    /\ probe.fn = "shortUnleveredReturnPct" /\ probe.done
    /\ probe.entryPrice = 100 /\ probe.exitPrice = 20 /\ probe.out = 80

\* C22: whether an open position takes profit, delta-exits or is evicted as a
\* replacement is decided by the thresholds copied into its row when it was
\* opened, whatever the configuration says now.
C22_ThresholdsAreThePositionsOwn ==
    (probe.fn = "riskRules" /\ probe.done) =>
       LET pos == positions[1]
           u == pos.latestUnleveredReturnPct
           delta == IF Len(probe.ratios) = 0 THEN 0
                    ELSE probe.ratios[Len(probe.ratios)].sellRatio - pos.entrySellRatio
       IN  /\ probe.out.exit = "TP" <=> u >= pos.takeProfitPct
           /\ probe.out.exit = "DELTA" <=>
                 u < pos.takeProfitPct /\ delta >= pos.deltaExitThreshold
           /\ probe.out.evict <=> u <= 0 - pos.replaceThresholdPct

\* ------------------------------------------- handleSignal on a given store
\* A cycle that has just detected one signal, for the hour before T0, on a store
\* that holds up to maxOpenPositions OPEN positions opened in earlier hours and
\* since marked (a mark of 100 is the entry price: never marked), with a
\* starting equity of 1600 or 1000 and with taker fees of 1% or none.
InitHandle ==
    LET Dec(sym, endMs, price) ==
            [ symbol |-> sym, closedHourStartMs |-> endMs - HOUR_MS, closedHourEndMs |-> endMs,
              closedHourVolume |-> 5000, signalSellRatio |-> 20, closePrice |-> 100,
              nextOpenPrice |-> price ]
        Row(id, endMs, m) ==
            LET u == shortUnleveredReturnPct(100, m) IN
            [NewPosition(Dec(Symbols[id], endMs, 100), id, 400, BaseConfig)
               EXCEPT !.latestMarkPrice = m,
                      !.latestUnleveredReturnPct = u,
                      !.latestLeveragedReturnPct = leveragedReturnPct(u, BaseConfig.leverage),
                      !.latestUnrealizedPnlUsd =
                          pnlUsdFromUnleveredPct(400, BaseConfig.leverage, u)]
        Stores ==
            { <<>> }
            \cup { << Row(1, T0 - 2 * HOUR_MS, m) >> : m \in {95, 100, 102, 110, 119} }
            \cup { << Row(1, T0 - 2 * HOUR_MS, m1), Row(2, e2, m2) >> :
                     m1 \in {95, 100, 102, 110, 119}, m2 \in {95, 100, 102, 110},
                     e2 \in {T0 - 2 * HOUR_MS, T0 - HOUR_MS} }
    IN  /\ now = T0 /\ alive = TRUE /\ started = TRUE /\ inCycle = TRUE
        /\ returned = NoReturn /\ runtime = [lastScan |-> T0 - HOUR_MS, lastRefresh |-> T0]
        /\ symbolsTbl = { Symbols[k] : k \in 1..Len(Symbols) }
        /\ trades = <<>> /\ alerts = <<>> /\ cycles = 0 /\ poll = NoPoll /\ probe = NoProbe
        /\ hist = [NoHist EXCEPT !.runtime = runtime]
        /\ cfg \in { [BaseConfig EXCEPT !.preventDuplicateSymbols = p, !.maxOpenPositions = m,
                                        !.minActiveCashUsd = c, !.replaceThresholdBasis = b,
                                        !.startingEquityUsd = eq, !.useFees = fee > 0,
                                        !.takerFeeBps = fee] :
                       p \in BOOLEAN, m \in 1..2, c \in {200, 500},
                       b \in {"unlevered", "levered"}, eq \in {1600, 1000}, fee \in {0, 100} }
        /\ positions \in { st \in Stores : Len(st) <= cfg.maxOpenPositions }
        /\ signals = { [ id |-> id, symbol |-> positions[id].symbol,
                         hourStartMs |-> positions[id].signalHourStartMs,
                         nextOpenPrice |-> 100, outcome |-> "OPENED" ] :
                         id \in 1..Len(positions) }
        /\ call \in { { [NewFrame EXCEPT
                           !.pc = "hsFind", !.lastScanTs = T0 - HOUR_MS, !.cycleNowTs = T0,
                           !.symbols = << sym >>, !.base = 1, !.j = 1,
                           !.results = << [ state |-> "done", error |-> FALSE,
                                            decision |-> Dec(sym, T0, price) ] >>,
                           !.decision = Dec(sym, T0, price)] } :
                        sym \in { Symbols[k] : k \in 1..Len(Symbols) }, price \in {0, 100} }
NextHandle ==
    \E fr \in call :
       \/ HsFind(fr) \/ HsCreate(fr) \/ HsDup(fr) \/ HsSummary(fr) \/ HsOpenList(fr)
       \/ CloseUpdate(fr) \/ CloseTrade(fr)
       \/ AlertSummary(fr) \/ AlertSend(fr) \/ AlertInsert(fr)
       \/ HsOpen(fr) \/ HsOutcome(fr)
SpecHandle == InitHandle /\ [][NextHandle]_vars

\* C23: a signal is rejected by the first failing check in the order duplicate
\* symbol, invalid next-open price, insufficient cash, capacity; a rejection
\* closes no position, and a signal that goes on to open or to replace has
\* passed the first three.
C23_FirstFailingCheck ==
    \A fr \in call :
       LET Dup == /\ cfg.preventDuplicateSymbols
                  /\ \E id \in OpenIds : positions[id].symbol = fr.decision.symbol
           Invalid == fr.decision.nextOpenPrice <= 0
           s == getSummary(cfg.startingEquityUsd)
           byFraction == (s.currentEquityUsd * cfg.entryMarginFraction) \div 100
           NoCash == \/ byFraction < cfg.minActiveCashUsd
                     \/ cfg.entryMarginCapUsd < cfg.minActiveCashUsd
                     \/ s.cashUsd < cfg.minActiveCashUsd
       IN  /\ (fr.pc = "hsOutcome" /\ fr.outcome \notin {"OPENED", "OPENED_REPLACEMENT"}) =>
                 /\ fr.outcome = IF Dup THEN "MISSED_DUPLICATE"
                                 ELSE IF Invalid THEN "MISSED_INVALID_PRICE"
                                 ELSE IF NoCash THEN "MISSED_NO_CASH"
                                 ELSE "MISSED_CAPACITY"
                 /\ fr.closing = NoClose /\ trades = <<>>
                 /\ \A id \in 1..Len(positions) : positions[id].status = "OPEN"
           /\ (fr.pc = "closeUpdate" \/ (fr.pc = "hsOpen" /\ fr.replaced = 0)) =>
                 ~Dup /\ ~Invalid /\ ~NoCash

\* A signal that lacks the cash while the portfolio is at the cap is being given
\* MISSED_NO_CASH, with every position still OPEN.
C23_Witness ==
    \E fr \in call :
       /\ fr.pc = "hsOutcome" /\ fr.outcome = "MISSED_NO_CASH"
       /\ Cardinality(OpenIds) >= cfg.maxOpenPositions /\ OpenIds # {}
       /\ trades = <<>>

\* C24: on a replacement the evicted position is closed with reason REPLACE at
\* its latest mark price (which openPosition sets to the entry price, so that a
\* position never marked would close there); it is
\* CLOSED and has its trade row before the new position is opened; the signal
\* is then marked OPENED_REPLACEMENT.
C24_CloseBeforeOpen ==
    /\ \A fr \in call :
          /\ fr.pc = "closeUpdate" =>
                /\ fr.closing.reason = "REPLACE" /\ fr.closing.id = fr.replaced
                /\ fr.closing.exitPrice = positions[fr.replaced].latestMarkPrice
          /\ (fr.replaced # 0 /\ \E id \in 1..Len(positions) :
                                    positions[id].signalId = fr.signalId) =>
                /\ positions[fr.replaced].status = "CLOSED"
                /\ positions[fr.replaced].exitReason = "REPLACE"
                /\ \E k \in TradesOf(fr.replaced) : trades[k].exitReason = "REPLACE"
          /\ (fr.pc = "hsOutcome" /\ fr.replaced # 0) => fr.outcome = "OPENED_REPLACEMENT"
    /\ \A id \in 1..Len(positions) :
          positions[id].exitReason = "REPLACE" =>
             /\ positions[id].status = "CLOSED"
             /\ positions[id].exitPrice = positions[id].latestMarkPrice
    /\ \A s \in signals :
          s.outcome = "OPENED_REPLACEMENT" =>
             /\ \E id \in OpenIds : positions[id].signalId = s.id
             /\ \E id \in 1..Len(positions) : positions[id].exitReason = "REPLACE"

\* A signal has been marked OPENED_REPLACEMENT: the evicted position, marked at
\* 110, is CLOSED at that price and the new one is OPEN.
C24_Witness ==
    /\ \E s \in signals : s.outcome = "OPENED_REPLACEMENT"
    /\ \E id \in 1..Len(positions) :
          positions[id].exitReason = "REPLACE" /\ positions[id].exitPrice = 110

\* C25: the replacement candidate is the OPEN position of least metric under
\* the configured basis, and among those of least metric one of earliest entry
\* timestamp, the order of the list read; when the candidate is refused, every
\* OPEN position is above the bound; with no OPEN position there is none.
C25_WorstCandidate ==
    \A fr \in call :
       /\ fr.pc = "closeUpdate" =>
             /\ fr.replaced \in OpenIds
             /\ \A id \in OpenIds :
                   /\ Metric(positions[fr.replaced], cfg) <= Metric(positions[id], cfg)
                   /\ Metric(positions[fr.replaced], cfg) = Metric(positions[id], cfg) =>
                         positions[fr.replaced].entryTsMs <= positions[id].entryTsMs
       /\ (fr.pc = "hsOutcome" /\ fr.outcome = "MISSED_CAPACITY") =>
             \A id \in OpenIds : Metric(positions[id], cfg) > 0 - cfg.replaceThresholdPct
       /\ (fr.pc \in {"hsOpen", "closeUpdate"} /\ Len(positions) = 0) => fr.replaced = 0

\* Two OPEN positions with the same least metric, opened an hour apart: the
\* earlier one is the candidate.
C25_Witness ==
    \E fr \in call :
       /\ fr.pc = "closeUpdate"
       /\ \E id \in OpenIds :
             /\ id # fr.replaced
             /\ Metric(positions[id], cfg) = Metric(positions[fr.replaced], cfg)
             /\ positions[id].entryTsMs > positions[fr.replaced].entryTsMs

\* C26: a cycle passes through its steps in the order read last-scan (1),
\* refresh (2), evaluate the open positions for exit (3), scan and handle
\* signals (4), write last-scan (5), and never back; a signal row is written
\* only in step 4; a cycle that returns executed does so in the very step that
\* writes the last-scan timestamp, its own start time, and nothing else writes
\* that timestamp.
C26_StepsInOrder ==
    [][ LET Step(f) ==
              CASE f.pc = "readLastScan" -> 1
                [] f.pc \in {"refreshRead", "refreshFetch", "refreshUpsert", "refreshMark"} -> 2
                [] f.pc \in {"exitLoad", "dtKlines", "dtRatios", "ticker", "mark", "liveRatios"}
                      -> 3
                [] f.pc \in {"closeUpdate", "closeTrade"} ->
                      IF f.closing.ret = "nextPos" THEN 3 ELSE 4
                [] f.pc \in {"alertSummary", "alertSend", "alertInsert"} ->
                      IF f.alert.ret = "nextPos" THEN 3 ELSE 4
                [] f.pc = "writeLastScan" -> 5
                [] OTHER -> 4
        IN  /\ \A fr \in call : \A g \in call' : Step(fr) <= Step(g)
            /\ (call = {} /\ call' # {}) => \A g \in call' : Step(g) = 1
            /\ signals' # signals => \A fr \in call : Step(fr) = 4
            /\ (returned' = Executed \/ runtime'.lastScan # runtime.lastScan) =>
                  /\ \E fr \in call : Step(fr) = 5 /\ runtime'.lastScan = fr.cycleNowTs
                  /\ call' = {} /\ returned' = Executed ]_vars

\* A cycle that evaluated a position and handled a signal has returned executed.
C26_Witness ==
    /\ returned = Executed /\ call = {}
    /\ hist.evaluated # {} /\ hist.handled # {}
    /\ runtime.lastScan = now

\* C27: in the exit loop a position is reconciled first whenever reconciliation
\* is enabled, a last scan exists and the position's window is not empty, and
\* only then; an exit found closes the position with that exit's reason,
\* timestamp and price, and the loop goes on to the next position; the ticker,
\* the mark update and the live decision are made only for a position that is
\* still OPEN, after a reconciliation that found nothing or was not due.
C27_ReconcileBeforeLive ==
    [][ \A fr \in call : \A g \in call' :
          LET InLoop(f) == f.pc \in {"dtKlines", "dtRatios", "ticker", "mark", "liveRatios"}
              Due(f) ==
                  /\ cfg.reconcileDowntimeExits /\ f.lastScanTs > 0
                  /\ f.cycleNowTs > WindowStart(positions[f.open[f.i]], f.lastScanTs,
                                                f.cycleNowTs, cfg)
          IN  /\ InLoop(fr) => positions[fr.open[fr.i]].status = "OPEN"
              /\ (InLoop(g) /\ (fr.pc = "exitLoad" \/ g.i # fr.i)) =>
                    /\ g.pc = IF Due(g) THEN "dtKlines" ELSE "ticker"
                    /\ g.pc = "dtKlines" => g.lastScanTs < g.cycleNowTs
              /\ (g.pc = "ticker" /\ fr.pc \in {"dtKlines", "dtRatios"}) => g.i = fr.i
              /\ (g.pc \in {"mark", "liveRatios"} /\ g.pc # fr.pc) =>
                    fr.pc \in {"ticker", "mark"} /\ g.i = fr.i
              /\ (fr.pc = "dtRatios" /\ g.pc \notin {"dtRatios", "ticker"}) =>
                    /\ g.pc = "closeUpdate" /\ g.closing.id = fr.open[fr.i]
                    /\ g.closing.ret = "nextPos" /\ g.mark = 0
                    /\ \E ra \in ExitRatios :
                          [ reason |-> g.closing.reason, exitTsMs |-> g.closing.exitTsMs,
                            exitPrice |-> g.closing.exitPrice ]
                             \in evaluateDowntimeExit(positions[fr.open[fr.i]], fr.lastScanTs,
                                                      fr.cycleNowTs, fr.klines, ra, cfg)
              /\ (fr.pc = "alertInsert" /\ fr.alert.ret = "nextPos" /\ g.pc # "alertInsert") =>
                    /\ positions[fr.alert.positionId].status = "CLOSED"
                    /\ InLoop(g) => g.i = fr.i + 1 ]_vars

\* A position is being closed by reconciliation, with no ticker fetched for it.
C27_Witness ==
    \E fr \in call :
       /\ fr.pc = "closeUpdate" /\ fr.closing.ret = "nextPos"
       /\ fr.mark = 0 /\ fr.lastScanTs > 0 /\ cfg.reconcileDowntimeExits

\* C28: reconciliation looks only at the window from max(entryTs, lastScanTs,
\* now - lookback cap) to now: no exit when now is at or before its start; a
\* price candidate comes from a candle that ends after the start and begins at
\* or before now; a DELTA candidate is a sample inside the window.
C28_WindowOnly ==
    (probe.fn = "evaluateDowntimeExit" /\ probe.done) =>
       LET byEntry == IF probe.pos.entryTsMs >= probe.lastScanTs THEN probe.pos.entryTsMs
                      ELSE probe.lastScanTs
           byCap == probe.nowTs - cfg.downtimeLookbackHoursMax * HOUR_MS
           start == IF byEntry >= byCap THEN byEntry ELSE byCap
       IN  /\ probe.nowTs <= start => probe.out = {}
           /\ \A a \in ProbeCandidates :
                 /\ a.reason \in {"LIQ", "TP"} =>
                       \E k \in 1..Len(probe.klines) :
                          /\ probe.klines[k].openTimeMs + HOUR_MS > start
                          /\ probe.klines[k].openTimeMs <= probe.nowTs
                          /\ a.exitTsMs = IF probe.klines[k].openTimeMs + HOUR_MS <= probe.nowTs
                                          THEN probe.klines[k].openTimeMs + HOUR_MS
                                          ELSE probe.nowTs
                          /\ \/ probe.klines[k].high >= 120
                             \/ probe.klines[k].low <= 90
                 /\ a.reason = "DELTA" =>
                       /\ a.exitTsMs >= start /\ a.exitTsMs <= probe.nowTs
                       /\ \E k \in 1..Len(probe.ratios) : probe.ratios[k].tsMs = a.exitTsMs

\* The last scan was at 2 hours: the candle of the first hour reached the
\* liquidation price and is passed over, and the exit found is a later one.
C28_Witness ==
    /\ probe.fn = "evaluateDowntimeExit" /\ probe.done
    /\ probe.lastScanTs = 2 * HOUR_MS /\ probe.nowTs = T0
    /\ Len(probe.klines) = 3 /\ probe.klines[1].high >= 120
    /\ \E x \in probe.out : x.exitTsMs > 2 * HOUR_MS

\* C29: the candle scan gives at most one price candidate, for the first candle
\* of the window (in the order returned, oldest first) whose high reaches
\* entry * (1 + 1/leverage) = 120 or whose low reaches entry * (1 - takeProfitPct)
\* = 90: LIQ whenever that candle's high reaches 120, also when its low reaches
\* 90, else TP; priced at the level itself and timestamped at the candle's close,
\* or at now when the candle closes later.
C29_FirstCandleOneCandidate ==
    (probe.fn = "evaluateDowntimeExit" /\ probe.done) =>
       LET start == WindowStart(probe.pos, probe.lastScanTs, probe.nowTs, cfg)
           close(k) == probe.klines[k].openTimeMs + HOUR_MS
           reached == { k \in 1..Len(probe.klines) :
                          /\ close(k) > start /\ probe.klines[k].openTimeMs <= probe.nowTs
                          /\ (probe.klines[k].high >= 120 \/ probe.klines[k].low <= 90) }
           price == { a \in ProbeCandidates : a.reason \in {"LIQ", "TP"} }
       IN  /\ reached = {} => price = {}
           /\ \A k \in reached :
                 (\A m \in reached : k <= m) =>
                    price = { [ reason |-> IF probe.klines[k].high >= 120 THEN "LIQ" ELSE "TP",
                                priority |-> IF probe.klines[k].high >= 120 THEN 1 ELSE 2,
                                exitPrice |-> IF probe.klines[k].high >= 120 THEN 120 ELSE 90,
                                exitTsMs |-> IF close(k) <= probe.nowTs THEN close(k)
                                             ELSE probe.nowTs ] }

\* The first candle of the window reaches both levels and closes after now, and a
\* later one reaches the take-profit level only: the exit is a liquidation at now.
C29_Witness ==
    /\ probe.fn = "evaluateDowntimeExit" /\ probe.done
    /\ probe.lastScanTs = 2 * HOUR_MS /\ probe.nowTs = T0 - (HOUR_MS \div 2)
    /\ Len(probe.klines) = 3
    /\ probe.klines[2].high >= 120 /\ probe.klines[2].low <= 90
    /\ \E a \in ProbeCandidates :
          a.reason = "LIQ" /\ a.exitPrice = 120 /\ a.exitTsMs = probe.nowTs

\* C30: the step that follows the ticker request either goes on to the mark
\* update of the same position with a positive mark price, or (no ticker, or a
\* mark price that is not positive) moves the loop past the position with the
\* position rows, the trades, the alerts and the signals all unchanged and no
\* close or alert in preparation.
C30_NoTickerSkipsPosition ==
    [][ \A fr \in call : \A g \in call' :
          (fr.pc = "ticker" /\ g # fr) =>
             \/ /\ g.pc = "mark" /\ g.i = fr.i /\ g.mark > 0
                /\ positions' = positions
             \/ /\ g.pc \in {"dtKlines", "ticker", "scanLoad"}
                /\ g.pc # "scanLoad" => g.i = fr.i + 1
                /\ g.pc = "scanLoad" => fr.i = Len(fr.open)
                /\ g.closing = NoClose /\ g.alert = NoAlert /\ g.mark = 0
                /\ positions' = positions /\ trades' = trades
                /\ alerts' = alerts /\ signals' = signals
                /\ fr.open[fr.i] \in hist'.evaluated ]_vars

\* The loop has passed a position that is still OPEN and whose mark is the one
\* written at its opening (no ticker of the model gives the entry price): its
\* ticker was missing or had no positive mark price.
C30_Witness ==
    \E fr \in call : \E k \in 1..Len(fr.open) :
       /\ fr.pc \in {"dtKlines", "ticker", "mark", "liveRatios"} /\ k < fr.i
       /\ fr.open[k] \in hist.evaluated
       /\ positions[fr.open[k]].status = "OPEN"
       /\ positions[fr.open[k]].latestMarkPrice = positions[fr.open[k]].entryPrice
       /\ positions[fr.open[k]].entryPrice \notin Marks

\* ------------------------------------------------ the two sources of TIME
\* Calls of decideExit and of evaluateDowntimeExit, examined together.
SpecTime ==
    (InitDecideExit \/ InitDowntime) /\ [][ApplyDecideExit \/ ApplyDowntime]_vars

\* C31: a TIME exit needs maxHoldHours > 0.  The live decision is TIME only when
\* the time held is at least maxHoldHours hours; reconciliation has a TIME
\* candidate, and returns a TIME exit, only when entryTs + maxHoldHours hours lies
\* in the window, and that candidate is timestamped at the deadline.
C31_TimeOnlyWithMaxHold ==
    /\ (probe.fn = "decideExit" /\ probe.done /\ probe.out = "TIME") =>
          /\ cfg.maxHoldHours > 0
          /\ probe.nowTs - probe.pos.entryTsMs >= cfg.maxHoldHours * HOUR_MS
    /\ (probe.fn = "evaluateDowntimeExit" /\ probe.done) =>
          LET byEntry == IF probe.pos.entryTsMs >= probe.lastScanTs THEN probe.pos.entryTsMs
                         ELSE probe.lastScanTs
              byCap == probe.nowTs - cfg.downtimeLookbackHoursMax * HOUR_MS
              start == IF byEntry >= byCap THEN byEntry ELSE byCap
              deadline == probe.pos.entryTsMs + cfg.maxHoldHours * HOUR_MS
          IN  \A a \in ProbeCandidates \cup probe.out :
                 a.reason = "TIME" =>
                    /\ cfg.maxHoldHours > 0
                    /\ a.exitTsMs = deadline
                    /\ start <= deadline /\ deadline <= probe.nowTs

\* A position held for maxHoldHours hours with no other trigger: the live
\* decision is TIME.
C31_Witness ==
    /\ probe.fn = "decideExit" /\ probe.done /\ probe.out = "TIME"
    /\ cfg.maxHoldHours = 1 /\ probe.nowTs - probe.pos.entryTsMs = HOUR_MS

\* ------------------------------------------------- one batch of two symbols
\* A cycle at the start of a batch that holds both symbols (symbolBatchSize 2),
\* on an empty store or on one OPEN position opened two hours before and since
\* marked at 110.
InitBatch ==
    LET Old == [ symbol |-> Symbols[1], closedHourStartMs |-> T0 - 3 * HOUR_MS,
                 closedHourEndMs |-> T0 - 2 * HOUR_MS, closedHourVolume |-> 5000,
                 signalSellRatio |-> 20, closePrice |-> 100, nextOpenPrice |-> 100 ]
        u == shortUnleveredReturnPct(100, 110)
        Row == [NewPosition(Old, 1, 400, BaseConfig)
                  EXCEPT !.latestMarkPrice = 110,
                         !.latestUnleveredReturnPct = u,
                         !.latestLeveragedReturnPct = leveragedReturnPct(u, BaseConfig.leverage),
                         !.latestUnrealizedPnlUsd =
                             pnlUsdFromUnleveredPct(400, BaseConfig.leverage, u)]
    IN  /\ now = T0 /\ alive = TRUE /\ started = TRUE /\ inCycle = TRUE
        /\ returned = NoReturn /\ runtime = [lastScan |-> T0 - HOUR_MS, lastRefresh |-> T0]
        /\ symbolsTbl = { Symbols[k] : k \in 1..Len(Symbols) }
        /\ trades = <<>> /\ alerts = <<>> /\ cycles = 0 /\ poll = NoPoll /\ probe = NoProbe
        /\ hist = [NoHist EXCEPT !.runtime = runtime]
        /\ cfg \in { [BaseConfig EXCEPT !.symbolBatchSize = 2, !.preventDuplicateSymbols = p,
                                        !.maxOpenPositions = m] : p \in BOOLEAN, m \in 1..2 }
        /\ positions \in { <<>>, << Row >> }
        /\ signals = { [ id |-> id, symbol |-> positions[id].symbol,
                         hourStartMs |-> positions[id].signalHourStartMs,
                         nextOpenPrice |-> 100, outcome |-> "OPENED" ] :
                         id \in 1..Len(positions) }
        /\ call = { EnterBatch([NewFrame EXCEPT !.lastScanTs = T0 - HOUR_MS, !.cycleNowTs = T0,
                                                !.symbols = Symbols], 1) }
SpecBatch == InitBatch /\ [][NextHandle \/ \E fr \in call : DetectSymbol(fr)]_vars

\* C32: the detections of a batch settle in any order, and handling starts only
\* when all of them have settled; the decisions are handled one at a time in the
\* order of the batch's symbols, and when the handling of a decision starts, the
\* signal of every decision before it in the batch has its final outcome and the
\* position rows and trades of those signals are written.
C32_HandlingAfterDetections ==
    [][ /\ Cardinality(call') <= 1
        /\ \A fr \in call : \A g \in call' :
              LET Handling(f) == f.pc \notin {"detect", "writeLastScan"}
                  SignalOf(d) == { s \in signals' : /\ s.symbol = d.symbol
                                                    /\ s.hourStartMs = d.closedHourStartMs }
              IN  /\ Handling(g) =>
                        /\ \A m \in 1..Len(g.results) : g.results[m].state = "done"
                        /\ g.j \in 1..Len(g.results)
                        /\ g.decision = g.results[g.j].decision
                        /\ g.decision.symbol = g.symbols[g.base + g.j - 1]
                  /\ (Handling(fr) /\ Handling(g)) => g.j >= fr.j
                  /\ (Handling(g) /\ (fr.pc = "detect" \/ g.j # fr.j)) =>
                        /\ g.pc = "hsFind"
                        /\ \A m \in 1..(g.j - 1) :
                              g.results[m].decision # NoDecision =>
                                 /\ SignalOf(g.results[m].decision) # {}
                                 /\ \A s \in SignalOf(g.results[m].decision) :
                                       /\ s.outcome # "PENDING"
                                       /\ s.outcome \in {"OPENED", "OPENED_REPLACEMENT"} =>
                                             \E id \in 1..Len(positions') :
                                                positions'[id].signalId = s.id ]_vars

\* Both detections of the batch gave a decision, the first has opened a position
\* and the second is being handled.
C32_Witness ==
    \E fr \in call :
       /\ fr.pc = "hsSummary" /\ fr.j = 2 /\ Len(fr.results) = 2
       /\ fr.results[1].decision # NoDecision
       /\ \E s \in signals : /\ s.symbol = fr.results[1].decision.symbol
                             /\ s.hourStartMs = fr.results[1].decision.closedHourStartMs
                             /\ s.outcome = "OPENED"

\* ------------------------------------------- the detector's five conditions
\* Calls of detect at T0 on what the exchange may return: no candle, one, two
\* (in order or not, the closed one with a volume below or at minHourVolume or
\* not finite, the current one with an open price negative, zero, positive or not
\* finite) or three; and no sample, one or two in either order, around the two
\* ends of the range of the closed hour, with a sell ratio at or above
\* sellRatioMax, null or not finite.
InitFilter ==
    LET Ks == { <<>>, << Candle(T0, "flat", 5000, 100) >>,
                << Candle(T0 - 2 * HOUR_MS, "flat", 0, 0), Candle(T0 - HOUR_MS, "flat", 5000, 100),
                   Candle(T0, "flat", 0, 100) >> }
              \cup { << Candle(t, "flat", v, 100), Candle(T0, "flat", 5000, o) >> :
                       t \in {T0 - HOUR_MS, T0, T0 + HOUR_MS},
                       v \in {999, 1000, 999999998, 999999999},
                       o \in {0 - 5, 0, 100, 999999998, 999999999} }
        Ts == {T0 - 2 * HOUR_MS - 1, T0 - 2 * HOUR_MS, T0 - HOUR_MS, T0, T0 + 1}
        Rs == {30, 31, NullNum, 999999998}
        Ra == { <<>> }
              \cup { << [tsMs |-> a, sellRatio |-> r] >> : a \in Ts, r \in Rs }
              \cup { << [tsMs |-> ab[1], sellRatio |-> r1], [tsMs |-> ab[2], sellRatio |-> r2] >> :
                       ab \in { x \in Ts \X Ts : x[1] # x[2] }, r1 \in Rs, r2 \in Rs }
    IN  /\ Idle
        /\ cfg = BaseConfig
        /\ probe \in { [ fn |-> "detect", lastScanTs |-> T0 - HOUR_MS, klines |-> ks,
                         ratios |-> rs, done |-> FALSE, out |-> NoDecision ] :
                         ks \in Ks, rs \in Ra }
SpecFilter == InitFilter /\ [][ApplyDetect]_vars

\* C33: the detector returns a decision exactly when at least two candles were
\* fetched, the second-to-last opens strictly before the last, the closed
\* candle's volume is finite and at least minHourVolume, the latest sample with a
\* timestamp from closedHourStart - 1h to closedHourEnd has a sell ratio that is
\* not null, finite and at most sellRatioMax, and the last candle's open price is
\* finite and positive; the decision carries those values.
C33_DecisionIffAllConditions ==
    (probe.fn = "detect" /\ probe.done) =>
       LET n == Len(probe.klines)
           Finite(x) == x # 0 - 999999999 /\ x # 999999998 /\ x # 999999999
           start == probe.klines[n - 1].openTimeMs
           InRange(k) == /\ probe.ratios[k].tsMs >= start - HOUR_MS
                         /\ probe.ratios[k].tsMs <= start + HOUR_MS
           Latest(k) == /\ InRange(k)
                        /\ \A m \in 1..Len(probe.ratios) :
                              InRange(m) => probe.ratios[m].tsMs <= probe.ratios[k].tsMs
           Ok == /\ n >= 2
                 /\ probe.klines[n - 1].openTimeMs < probe.klines[n].openTimeMs
                 /\ Finite(probe.klines[n - 1].volume)
                 /\ probe.klines[n - 1].volume >= cfg.minHourVolume
                 /\ \E k \in 1..Len(probe.ratios) :
                       /\ Latest(k)
                       /\ probe.ratios[k].sellRatio # NullNum
                       /\ Finite(probe.ratios[k].sellRatio)
                       /\ probe.ratios[k].sellRatio <= cfg.sellRatioMax
                 /\ Finite(probe.klines[n].open) /\ probe.klines[n].open > 0
       IN  /\ probe.out # NoDecision <=> Ok
           /\ probe.out # NoDecision =>
                 /\ probe.out.closedHourStartMs = start
                 /\ probe.out.closedHourVolume = probe.klines[n - 1].volume
                 /\ probe.out.nextOpenPrice = probe.klines[n].open
                 /\ \E k \in 1..Len(probe.ratios) :
                       Latest(k) /\ probe.out.signalSellRatio = probe.ratios[k].sellRatio

\* A decision from two samples listed newest first: the one of the closed hour's
\* end qualifies and the older one, listed after it, does not.
C33_Witness ==
    /\ probe.fn = "detect" /\ probe.done /\ probe.out # NoDecision
    /\ Len(probe.ratios) = 2
    /\ probe.ratios[1].tsMs = T0 /\ probe.ratios[1].sellRatio = 30
    /\ probe.ratios[2].tsMs = T0 - HOUR_MS /\ probe.ratios[2].sellRatio = 31

InitPoll ==
    /\ Idle
    /\ cfg = BaseConfig
    /\ probe = [ fn |-> "pollOnce", posted |-> 0, forgotten |-> 0, offset |-> 0,
                 polls |-> <<>>, handled |-> <<>> ]

\* A user sends a command to the bot.
UpdateArrives ==
    /\ probe.fn = "pollOnce" /\ probe.posted < MaxUpdates
    /\ probe' = [probe EXCEPT !.posted = @ + 1]
    /\ Still

\* setInterval's callback: a call of pollOnce begins.
PollTick ==
    /\ probe.fn = "pollOnce" /\ cfg.telegramEnabled /\ Len(probe.polls) < MaxPolls
    /\ probe' = [probe EXCEPT
                    !.polls = Append(@, [ pc |-> "getRuntimeValue", offset |-> 0,
                                          updates |-> <<>>, k |-> 0 ])]
    /\ Still

\* offsetRaw = await store.getRuntimeValue(key); offset = Number(offsetRaw ?? "0") || 0.
PollReadOffset(i) ==
    /\ probe.polls[i].pc = "getRuntimeValue"
    /\ probe' = [probe EXCEPT !.polls[i].pc = "getUpdates", !.polls[i].offset = probe.offset]
    /\ Still

\* updates = await telegram.getUpdates(offset): the updates from the offset on
\* that Telegram still holds, oldest first, or none when the request is refused;
\* none ends the call, else offset becomes the highest update_id + 1.
PollGetUpdates(i) ==
    /\ probe.polls[i].pc = "getUpdates"
    /\ \E ok \in BOOLEAN :
          LET f == probe.polls[i]
              from == Max2(Max2(f.offset, probe.forgotten), 1)
              updates == IF ok /\ from <= probe.posted
                         THEN [k \in 1..(probe.posted - from + 1) |-> from + k - 1]
                         ELSE <<>>
          IN  probe' = [probe EXCEPT
                           !.forgotten = IF ok THEN Max2(@, f.offset) ELSE @,
                           !.polls[i] =
                               IF Len(updates) = 0 THEN [f EXCEPT !.pc = "returned"]
                               ELSE [f EXCEPT !.pc = "setRuntimeValue", !.updates = updates,
                                              !.offset = Max2(f.offset,
                                                              updates[Len(updates)] + 1)]]
    /\ Still

\* await store.setRuntimeValue(key, String(offset)); then the loop over the
\* commands begins.
PollWriteOffset(i) ==
    /\ probe.polls[i].pc = "setRuntimeValue"
    /\ probe' = [probe EXCEPT !.offset = probe.polls[i].offset,
                              !.polls[i].pc = "handleCommand", !.polls[i].k = 1]
    /\ Still

\* await handleCommand(cmd.text.trim(), cmd.chatId), for the next command.
PollHandleCommand(i) ==
    /\ probe.polls[i].pc = "handleCommand"
    /\ LET f == probe.polls[i] IN
       probe' = [probe EXCEPT
                    !.handled = Append(@, f.updates[f.k]),
                    !.polls[i] = IF f.k = Len(f.updates) THEN [f EXCEPT !.pc = "returned"]
                                 ELSE [f EXCEPT !.k = f.k + 1]]
    /\ Still

SpecPoll ==
    /\ InitPoll
    /\ [][ \/ UpdateArrives
           \/ PollTick
           \/ \E i \in 1..Len(probe.polls) :
                 \/ PollReadOffset(i) \/ PollGetUpdates(i)
                 \/ PollWriteOffset(i) \/ PollHandleCommand(i) ]_vars

\* C35: each Telegram update is handled at most once, and the stored poll cursor
\* never decreases, whatever the interleaving of the poller's ticks.
C35_HandledOnceCursorMonotone ==
    /\ [](\A a \in 1..Len(probe.handled) : \A b \in 1..Len(probe.handled) :
             a # b => probe.handled[a] # probe.handled[b])
    /\ [][probe'.offset >= probe.offset]_vars

\* C36: outside the moment between store.openPosition and setSignalOutcome, a
\* signal is OPENED or OPENED_REPLACEMENT exactly when one position row refers
\* to it, and no position refers to a signal that is MISSED_* or PENDING, also
\* after a storage failure in handleSignal.
C36_OpenedIffOnePosition ==
    (\A fr \in call : fr.pc # "hsOutcome") =>
       \A s \in signals :
          LET refs == { id \in 1..Len(positions) : positions[id].signalId = s.id }
          IN  IF s.outcome \in {"OPENED", "OPENED_REPLACEMENT"}
              THEN Cardinality(refs) = 1
              ELSE refs = {}

\* C37: when handleSignal has opened a position, the cash of the summary
\* (starting equity + realized PnL + open funding accrued - margin in use) is
\* not negative, also when the position replaces one that was closed at a loss.
C37_CashNotNegativeAfterOpen ==
    \A fr \in call :
       (fr.pc = "hsOutcome" /\ fr.outcome \in {"OPENED", "OPENED_REPLACEMENT"}) =>
          getSummary(cfg.startingEquityUsd).cashUsd >= 0

\* C38: the exit that reconciliation returns has its time inside the window:
\* not before max(entryTs, lastScanTs, now - lookback cap) and not after now,
\* hence neither before the position's entry nor before the previous last scan.
C38_ExitInsideWindow ==
    (probe.fn = "evaluateDowntimeExit" /\ probe.done) =>
       \A x \in probe.out :
          /\ x.exitTsMs <= probe.nowTs
          /\ x.exitTsMs >= probe.pos.entryTsMs
          /\ x.exitTsMs >= probe.lastScanTs
          /\ x.exitTsMs >= probe.nowTs - cfg.downtimeLookbackHoursMax * HOUR_MS

\* The only candle that reaches a level is the one still open at now, after a
\* last scan later than the entry: the exit returned is stamped at now.
C38_Witness ==
    /\ probe.fn = "evaluateDowntimeExit" /\ probe.done
    /\ probe.lastScanTs > probe.pos.entryTsMs
    /\ Len(probe.klines) = 3
    /\ probe.klines[3].openTimeMs + HOUR_MS > probe.nowTs
    /\ \E x \in probe.out : x.reason \in {"LIQ", "TP"} /\ x.exitTsMs = probe.nowTs

\* ------------------------------------------------------- a process restart
\* main() of a new process once the old one has exited: bootstrap() builds the
\* engine and awaits engine.bootstrap(), whose bootstrapRuntime upserts the
\* value "0" on the keys of the runtime state, last_scan_ts among them, and
\* whose forced symbol refresh then stamps last_symbol_refresh_ts; start() has
\* not yet run its first cycle.  The tables of signals, positions, trades and
\* alerts are the database's and are kept.
Restart ==
    /\ ~alive /\ cycles < MaxCycles
    /\ alive' = TRUE /\ started' = FALSE /\ inCycle' = FALSE /\ call' = {}
    /\ runtime' = [lastScan |-> 0, lastRefresh |-> now]
    /\ symbolsTbl' = symbolsTbl \cup { Symbols[k] : k \in 1..Len(Symbols) }
    /\ poll' = NoPoll /\ returned' = NoReturn /\ hist' = NoHist
    /\ UNCHANGED << probe, cfg, cycles, now, signals, positions, trades, alerts >>

SpecRestart == InitScan /\ [][Next \/ Restart]_vars

\* C39: a cycle that returns executed has stored, as the last-scan timestamp,
\* the time taken at its own start, and the stored timestamp never decreases:
\* the cycle that follows reads the time at which this one's window ended.
C39_LastScanIsCycleStart ==
    [][ /\ returned' = Executed =>
              \E fr \in call : fr.pc = "writeLastScan" /\ runtime'.lastScan = fr.cycleNowTs
        /\ runtime'.lastScan >= runtime.lastScan ]_vars

\* C40: no signal of a cycle ends with the outcome MISSED_INVALID_PRICE: every
\* decision the detector hands to handleSignal has a finite next-open price
\* above zero, so the price check of handleSignal never rejects one.
C40_InvalidPriceUnreachable ==
    /\ \A s \in signals :
          s.outcome # "MISSED_INVALID_PRICE" /\ s.nextOpenPrice > 0
                                             /\ s.nextOpenPrice \notin NonFinite
    /\ \A fr \in call :
          /\ fr.outcome # "MISSED_INVALID_PRICE"
          /\ \A k \in 1..Len(fr.results) :
                fr.results[k].decision # NoDecision =>
                   /\ fr.results[k].decision.nextOpenPrice > 0
                   /\ fr.results[k].decision.nextOpenPrice \notin NonFinite

\* In one cycle a detection that did not fail gave no decision, and the signal
\* of another has passed the price check and got its outcome.
C40_Witness ==
    /\ hist.detected \ (hist.decided \cup hist.detectFailed) # {}
    /\ \E s \in signals : s.symbol \in hist.handled /\ s.outcome # "PENDING"

====
